---- MODULE Spec2Model ----
(***************************************************************************)
(* Shadow Caster (web implementation): configuration resolver, geometry   *)
(* synthesizer, mesh merger / STL encoder and Floyd-Steinberg quantizer.  *)
(*                                                                         *)
(* Number representation.  Lengths are integers in micrometres (1 mm =    *)
(* 1000), so 0.01 mm = 10 and halves of two-decimal lengths are exact.    *)
(* Arithmetic is exact rational arithmetic on these integers; the IEEE    *)
(* rounding of the JavaScript doubles is not modelled.  Math.round is     *)
(* round-half-up (towards +Infinity), Math.floor is floor.                *)
(***************************************************************************)
EXTENDS Integers, Sequences, FiniteSets, TLC

VARIABLES
    config,          \* App state `config` (ImageConfig)
    computed,        \* App's `computedConfig` = computeImageConfig(config)
    horizImageData,  \* App state: ProcessedImageData or Null
    vertImageData,   \* App state: ProcessedImageData or Null
    geometry,        \* App state `geometry` (ShadowCasterGeometry) or Null
    merged,          \* the BufferGeometry handed to the STL exporter, or Null
    stl,             \* the binary STL produced by the last export, or Null
    resized,         \* output of resizeAndGrayscale inside processImage, or Null
    dithered,        \* output of ditherImage(resized, numberOfColors), or Null
    loadedImg,       \* the loaded HTMLImageElement (natural size), or Null
    thrown,          \* name of the exception the last call ended with, or "none"
    horizFile,       \* App state: the selected File, or Null
    vertFile,        \* App state: the selected File, or Null
    isProcessing,    \* App state
    inflight,        \* processImages calls awaiting Promise.all, in start order
    bounds,          \* ThreeViewer: calculateSceneBounds of the shown geometry, or Null
    canvas,          \* resizeAndGrayscale: the RGB pixels read back from the canvas
    working,         \* ditherImage: its local array `dithered`, or Null outside a call
    pos,             \* ditherImage: number of pixels the loops have visited
    rounding,        \* roundToLayerHeight: the arguments and the values returned, or Null
    scene,           \* ThreeViewer: the geometry groups held by sceneRef.current
    geometryGroupRef,\* ThreeViewer: geometryGroupRef.current, a group or Null
    disposed,        \* ids of the groups whose mesh geometries were disposed
    built            \* number of groups createThreeGeometry has returned

vars == <<config, computed, horizImageData, vertImageData, geometry, merged,
          stl, resized, dithered, loadedImg, thrown, horizFile, vertFile,
          isProcessing, inflight, bounds, canvas, working, pos, rounding, scene,
          geometryGroupRef, disposed, built>>

Null == [tag |-> "null"]

(***************************************************************************)
(* Bounds of the model                                                     *)
(***************************************************************************)
MaxGridWidth == 2
MaxGridHeight == 2
MaxColors == 131
MaxDitherPixels == 4
MaxDitherColors == 4
MaxImageSide == 3
MaxInFlight == 2
MaxGroupSize == 3
\* groups created by ThreeViewer's geometry effect in one run of the viewer
MaxGroupsBuilt == 3

(***************************************************************************)
(* Arithmetic helpers                                                      *)
(***************************************************************************)
\* Math.floor(num / den) for den > 0
Floor(num, den) == num \div den

\* Math.round(num / den) for den > 0: floor(num/den + 1/2)
Round(num, den) == (2 * num + den) \div (2 * den)

Max(a, b) == IF a >= b THEN a ELSE b

Abs(a) == IF a >= 0 THEN a ELSE -a

\* Math.round(num / den) for den # 0
RoundDiv(num, den) == IF den > 0 THEN Round(num, den) ELSE Round(-num, -den)

\* number of loop iterations of `for y < height` / `for x < width`
iterations(width, height) == IF width > 0 /\ height > 0 THEN width * height ELSE 0

\* the double NaN
NaN == [tag |-> "NaN"]

\* 0.01 mm overlap added to the wall's footprint
Epsilon == 10

\* val / 256 in the height formula
BrightnessDivisor == 256

(***************************************************************************)
(* types/ImageConfig.ts                                                    *)
(***************************************************************************)
defaultConfig ==
    [ widthInPixels |-> 100, doHorizImage |-> TRUE, doVertImage |-> TRUE,
      cellSize |-> 2100, wallWidth |-> 400, bottomThk |-> 800,
      layerHeight |-> 100, numberOfColorsOverride |-> 0,
      shouldDoPlusWalls |-> FALSE ]

presetConfigs ==
    [ default |-> defaultConfig,
      p2 |-> [defaultConfig EXCEPT !.widthInPixels = 50, !.cellSize = 1000,
                  !.wallWidth = 200, !.bottomThk = 400, !.layerHeight = 50],
      p3 |-> [defaultConfig EXCEPT !.widthInPixels = 85, !.cellSize = 1100,
                  !.wallWidth = 220, !.bottomThk = 600, !.layerHeight = 50],
      fuji |-> [defaultConfig EXCEPT !.widthInPixels = 100, !.cellSize = 1100,
                  !.wallWidth = 220, !.bottomThk = 600, !.layerHeight = 50] ]

\* mutation of numberOfColorsOf: the wall width is not subtracted
mutNumberOfColors(c) ==
    IF c.numberOfColorsOverride = 0
    THEN Floor(c.cellSize, c.layerHeight)
    ELSE c.numberOfColorsOverride

\* numberOfColors as derived at ImageConfig.ts:22-24 (layerHeight > 0)
numberOfColorsOf(c) ==
    IF c.numberOfColorsOverride = 0
    THEN Floor(c.cellSize - c.wallWidth, c.layerHeight)
    ELSE c.numberOfColorsOverride

\* decimal places of toFixed(2), and micrometres per hundredth / whole mm
FixedDecimals == 2
MicrometresPerHundredth == 10
MicrometresPerUnit == 1000

\* format(n) = n.toFixed(n === Math.floor(n) ? 0 : 2) for n >= 0 mm given in
\* micrometres: the printed whole part and the printed decimal digits.  A
\* value that is not a whole number always gets two decimals, zeros included.
format(n) ==
    IF n % MicrometresPerUnit = 0
    THEN [ whole |-> n \div MicrometresPerUnit, decimals |-> << >> ]
    ELSE LET hundredths == Round(n, MicrometresPerHundredth)
         IN [ whole |-> hundredths \div 100,
              decimals |-> [ d \in 1..FixedDecimals |->
                               IF d = 1 THEN (hundredths \div 10) % 10
                               ELSE hundredths % 10 ] ]

\* the template literal of ImageConfig.ts:29, as the sequence of its parts
outputFilenameOf(c, maxHeight) ==
    << c.widthInPixels, "px_", format(c.cellSize), "cell_", format(c.wallWidth),
       "wall_", format(c.bottomThk), "bottom_", format(maxHeight), "maxHeight.stl" >>

\* computeImageConfig: never throws, spreads the input and adds the derived
\* fields
computeImageConfig(c) ==
    [ widthInPixels |-> c.widthInPixels,
      doHorizImage |-> c.doHorizImage,
      doVertImage |-> c.doVertImage,
      cellSize |-> c.cellSize,
      wallWidth |-> c.wallWidth,
      bottomThk |-> c.bottomThk,
      layerHeight |-> c.layerHeight,
      numberOfColorsOverride |-> c.numberOfColorsOverride,
      shouldDoPlusWalls |-> c.shouldDoPlusWalls,
      maxHeight |-> numberOfColorsOf(c) * c.layerHeight,
      numberOfColors |-> numberOfColorsOf(c),
      border |-> c.cellSize,
      outputFilename |-> outputFilenameOf(c, numberOfColorsOf(c) * c.layerHeight) ]

(***************************************************************************)
(* utils/imageProcessing.ts: roundToLayerHeight                            *)
(***************************************************************************)
\* mutation of roundToLayerHeight: rounds to a whole micrometre, not to a layer
mutRoundToLayerHeight(num, den, layerHeight) == Round(num, den)

\* roundToLayerHeight(num/den, layerHeight) = Math.round(h / L) * L with
\* h = num/den micrometres
roundToLayerHeight(num, den, layerHeight) ==
    Round(num, den * layerHeight) * layerHeight

(***************************************************************************)
(* utils/geometryGenerator.ts: generateShadowCasterGeometry                *)
(***************************************************************************)
\* mutation of wallHeight: val/256 in place of 1 - val/256
mutWallHeight(val, cfg) ==
    roundToLayerHeight(val * (cfg.maxHeight - cfg.layerHeight),
                       BrightnessDivisor, cfg.layerHeight)

\* (1 - val/256) * (maxHeight - layerHeight), rounded to the layer grid
wallHeight(val, cfg) ==
    roundToLayerHeight((BrightnessDivisor - val) * (cfg.maxHeight - cfg.layerHeight),
                       BrightnessDivisor, cfg.layerHeight)

plusWallOffset(cfg) ==
    IF cfg.shouldDoPlusWalls THEN (cfg.cellSize - cfg.wallWidth) \div 2 ELSE 0

\* pixel (x, y), 0-based, of grid img
pixelAt(img, x, y) == img.data[y + 1][x + 1]

\* mutation of leftWallAt: the z-size omits the added layerHeight
mutLeftWallAt(img, x, y, cfg) ==
    LET h == wallHeight(pixelAt(img, x, y), cfg)
    IN [ position |-> << cfg.border + (x + 1) * cfg.cellSize + plusWallOffset(cfg),
                         cfg.border + (img.height - y) * cfg.cellSize,
                         cfg.bottomThk + h \div 2 + cfg.layerHeight \div 2 >>,
         size |-> << cfg.wallWidth + Epsilon, cfg.cellSize + Epsilon, h >> ]

\* the left wall of pixel (x, y), geometryGenerator.ts:29-47
leftWallAt(img, x, y, cfg) ==
    LET h == wallHeight(pixelAt(img, x, y), cfg)
    IN [ position |-> << cfg.border + (x + 1) * cfg.cellSize + plusWallOffset(cfg),
                         cfg.border + (img.height - y) * cfg.cellSize,
                         cfg.bottomThk + h \div 2 + cfg.layerHeight \div 2 >>,
         size |-> << cfg.wallWidth + Epsilon, cfg.cellSize + Epsilon,
                     h + cfg.layerHeight >> ]

\* mutation of upWallAt: the plus-wall offset is added to posX, as for a
\* left wall
mutUpWallAt(img, x, y, cfg) ==
    LET h == wallHeight(pixelAt(img, x, y), cfg)
    IN [ position |-> << cfg.border + (x + 1) * cfg.cellSize + plusWallOffset(cfg),
                         cfg.border + (img.height - y) * cfg.cellSize,
                         cfg.bottomThk + h \div 2 + cfg.layerHeight \div 2 >>,
         size |-> << cfg.cellSize + Epsilon, cfg.wallWidth + Epsilon,
                     h + cfg.layerHeight >> ]

\* mutation of upWallAt: posZ omits the half layer, so the wall sinks into
\* the base
mutUpWallAtSunk(img, x, y, cfg) ==
    LET h == wallHeight(pixelAt(img, x, y), cfg)
    IN [ position |-> << cfg.border + (x + 1) * cfg.cellSize,
                         cfg.border + (img.height - y) * cfg.cellSize + plusWallOffset(cfg),
                         cfg.bottomThk + h \div 2 >>,
         size |-> << cfg.cellSize + Epsilon, cfg.wallWidth + Epsilon,
                     h + cfg.layerHeight >> ]

\* the up wall of pixel (x, y), geometryGenerator.ts:56-74
upWallAt(img, x, y, cfg) ==
    LET h == wallHeight(pixelAt(img, x, y), cfg)
    IN [ position |-> << cfg.border + (x + 1) * cfg.cellSize,
                         cfg.border + (img.height - y) * cfg.cellSize + plusWallOffset(cfg),
                         cfg.bottomThk + h \div 2 + cfg.layerHeight \div 2 >>,
         size |-> << cfg.cellSize + Epsilon, cfg.wallWidth + Epsilon,
                     h + cfg.layerHeight >> ]

\* mutation of leftWallsOf: config.doHorizImage is not consulted
mutLeftWalls(img, cfg) ==
    IF img # Null
    THEN [ i \in 1..(img.width * img.height) |->
             leftWallAt(img, (i - 1) % img.width, (i - 1) \div img.width, cfg) ]
    ELSE << >>

\* the nested y / x loops push walls in row-major order
leftWallsOf(img, cfg) ==
    IF img # Null /\ cfg.doHorizImage
    THEN [ i \in 1..(img.width * img.height) |->
             leftWallAt(img, (i - 1) % img.width, (i - 1) \div img.width, cfg) ]
    ELSE << >>

upWallsOf(img, cfg) ==
    IF img # Null /\ cfg.doVertImage
    THEN [ i \in 1..(img.width * img.height) |->
             upWallAt(img, (i - 1) % img.width, (i - 1) \div img.width, cfg) ]
    ELSE << >>

\* horizImageData?.width || 0
widthOrZero(img) == IF img = Null THEN 0 ELSE img.width
heightOrZero(img) == IF img = Null THEN 0 ELSE img.height

\* mutation of baseOf: the footprint follows the horizontal grid alone
mutBaseOf(horiz, vert, cfg) ==
    LET baseWidth == cfg.border * 2 + cfg.cellSize * (widthOrZero(horiz) + 2)
        baseHeight == cfg.border * 2 + cfg.cellSize * (heightOrZero(horiz) + 2)
    IN [ position |-> << baseWidth \div 2, baseHeight \div 2, cfg.bottomThk \div 2 >>,
         size |-> << baseWidth, baseHeight, cfg.bottomThk >> ]

\* the base slab, geometryGenerator.ts:79-95
baseOf(horiz, vert, cfg) ==
    LET imageWidth == Max(widthOrZero(horiz), widthOrZero(vert))
        imageHeight == Max(heightOrZero(horiz), heightOrZero(vert))
        baseWidth == cfg.border * 2 + cfg.cellSize * (imageWidth + 2)
        baseHeight == cfg.border * 2 + cfg.cellSize * (imageHeight + 2)
    IN [ position |-> << baseWidth \div 2, baseHeight \div 2, cfg.bottomThk \div 2 >>,
         size |-> << baseWidth, baseHeight, cfg.bottomThk >> ]

\* the first endY rows of a grid
croppedTo(img, endY) ==
    [ data |-> SubSeq(img.data, 1, endY), width |-> img.width, height |-> endY ]

\* mutation of generateShadowCasterGeometry: with both grids present each is
\* cropped to the smaller row count before its walls are made
mutGenerateCropped(horiz, vert, cfg) ==
    IF horiz # Null /\ vert # Null
    THEN LET endY == IF horiz.height <= vert.height THEN horiz.height ELSE vert.height
         IN [ base |-> baseOf(horiz, vert, cfg),
              leftWalls |-> leftWallsOf(croppedTo(horiz, endY), cfg),
              upWalls |-> upWallsOf(croppedTo(vert, endY), cfg) ]
    ELSE [ base |-> baseOf(horiz, vert, cfg),
           leftWalls |-> leftWallsOf(horiz, cfg),
           upWalls |-> upWallsOf(vert, cfg) ]

\* never throws: the result always carries a base and the two wall lists
generateShadowCasterGeometry(horiz, vert, cfg) ==
    [ base |-> baseOf(horiz, vert, cfg),
      leftWalls |-> leftWallsOf(horiz, cfg),
      upWalls |-> upWallsOf(vert, cfg) ]

(***************************************************************************)
(* utils/geometryGenerator.ts: calculateSceneBounds                        *)
(***************************************************************************)
Min(a, b) == IF a <= b THEN a ELSE b

\* mutation of allGeometries: the up walls are left out
mutAllGeometries(geom) == << geom.base >> \o geom.leftWalls

\* [base, ...leftWalls, ...upWalls]
allGeometries(geom) == << geom.base >> \o geom.leftWalls \o geom.upWalls

RECURSIVE boundsLoop(_, _)
\* min / max after the first n boxes of the forEach; the list always holds
\* the base, so the initial +-Infinity are replaced by the first box
boundsLoop(boxes, n) ==
    LET wall == boxes[n]
        lower == [ a \in 1..3 |-> wall.position[a] - wall.size[a] \div 2 ]
        upper == [ a \in 1..3 |-> wall.position[a] + wall.size[a] \div 2 ]
    IN IF n = 1 THEN [ min |-> lower, max |-> upper ]
       ELSE LET acc == boundsLoop(boxes, n - 1)
            IN [ min |-> [ a \in 1..3 |-> Min(acc.min[a], lower[a]) ],
                 max |-> [ a \in 1..3 |-> Max(acc.max[a], upper[a]) ] ]

calculateSceneBounds(geom) ==
    LET boxes == allGeometries(geom)
        b == boundsLoop(boxes, Len(boxes))
    IN [ min |-> b.min,
         max |-> b.max,
         center |-> [ a \in 1..3 |-> (b.min[a] + b.max[a]) \div 2 ],
         size |-> [ a \in 1..3 |-> b.max[a] - b.min[a] ] ]

(***************************************************************************)
(* utils/stlExporter.ts: exportToSTL, mergeGeometries,                     *)
(* mergeBufferGeometries                                                   *)
(***************************************************************************)
\* THREE.BoxGeometry with one segment per side: 6 faces of 4 vertices
VerticesPerBox == 24
\* 2 triangles per face
TrianglesPerBox == 12
IndicesPerBox == 3 * TrianglesPerBox
\* binary STL: 80-byte header and uint32 triangle count
StlHeaderBytes == 84
\* binary STL: 12 floats and a uint16 per triangle
StlTriangleBytes == 50

\* vertex j (0..3) of face f (0..5: +x, -x, +y, -y, +z, -z) of a box of the
\* given size, in local space
boxVertex(size, f, j) ==
    LET W == size[1]  H == size[2]  D == size[3]
        ix == j % 2
        iy == j \div 2
    IN CASE f = 0 -> << W \div 2, -(iy * H - H \div 2), -(ix * D - D \div 2) >>
         [] f = 1 -> << -(W \div 2), -(iy * H - H \div 2), ix * D - D \div 2 >>
         [] f = 2 -> << ix * W - W \div 2, H \div 2, iy * D - D \div 2 >>
         [] f = 3 -> << ix * W - W \div 2, -(H \div 2), -(iy * D - D \div 2) >>
         [] f = 4 -> << ix * W - W \div 2, -(iy * H - H \div 2), D \div 2 >>
         [] OTHER -> << -(ix * W - W \div 2), -(iy * H - H \div 2), -(D \div 2) >>

\* index i (0..35) of a box: per face the triangles (a, b, d) and (b, c, d)
\* with a = 0, b = 2, c = 3, d = 1 relative to the face's first vertex
boxIndex(i) ==
    LET f == i \div 6
        k == i % 6
    IN 4 * f + (CASE k = 0 -> 0 [] k = 1 -> 2 [] k = 2 -> 1
                  [] k = 3 -> 2 [] k = 4 -> 3 [] OTHER -> 1)

\* the normal of the vertices of face f; a translation leaves it as it is
faceNormal(f) ==
    CASE f = 0 -> << 1, 0, 0 >>
      [] f = 1 -> << -1, 0, 0 >>
      [] f = 2 -> << 0, 1, 0 >>
      [] f = 3 -> << 0, -1, 0 >>
      [] f = 4 -> << 0, 0, 1 >>
      [] OTHER -> << 0, 0, -1 >>

\* itemSize of the position and normal attributes
FloatsPerVertex == 3

\* new THREE.BoxGeometry(...wall.size) placed by mesh.position and cloned +
\* applyMatrix4 (a pure translation) in mergeGeometries
boxGeometry(wall) ==
    [ position |-> [ v \in 1..VerticesPerBox |->
                       LET p == boxVertex(wall.size, (v - 1) \div 4, (v - 1) % 4)
                       IN << p[1] + wall.position[1], p[2] + wall.position[2],
                             p[3] + wall.position[3] >> ],
      normal |-> [ v \in 1..VerticesPerBox |-> faceNormal((v - 1) \div 4) ],
      index |-> [ i \in 1..IndicesPerBox |-> boxIndex(i - 1) ] ]

\* the group's meshes in traversal order: base, left walls, up walls
groupGeometries(geom) ==
    << boxGeometry(geom.base) >>
      \o [ i \in 1..Len(geom.leftWalls) |-> boxGeometry(geom.leftWalls[i]) ]
      \o [ i \in 1..Len(geom.upWalls) |-> boxGeometry(geom.upWalls[i]) ]

\* the counting forEach of stlExporter.ts:101-115 after n geometries; every
\* geometry of the group is an indexed BoxGeometry
RECURSIVE countLoop(_, _)
countLoop(geometries, n) ==
    IF n = 0 THEN [ vertexCount |-> 0, indexCount |-> 0 ]
    ELSE LET acc == countLoop(geometries, n - 1)
         IN [ vertexCount |-> acc.vertexCount + Len(geometries[n].position),
              indexCount |-> acc.indexCount + Len(geometries[n].index) ]

\* the locals of the merging forEach before its first iteration
mergeStart ==
    [ position |-> << >>, normal |-> << >>, index |-> << >>,
      positionOffset |-> 0, normalOffset |-> 0, indexOffset |-> 0,
      vertexOffset |-> 0 ]

RECURSIVE mergeLoop(_, _)
\* mutation of mergeLoop: indices are copied without the vertex offset
mutMergeLoop(geometries, n) ==
    IF n = 0 THEN mergeStart
    ELSE LET acc == mergeLoop(geometries, n - 1)
             g == geometries[n]
         IN [ position |-> acc.position \o g.position,
              normal |-> acc.normal \o g.normal,
              index |-> acc.index \o [ i \in 1..Len(g.index) |-> g.index[i] ],
              positionOffset |-> acc.positionOffset + FloatsPerVertex * Len(g.position),
              normalOffset |-> acc.normalOffset + FloatsPerVertex * Len(g.normal),
              indexOffset |-> acc.indexOffset + Len(g.index),
              vertexOffset |-> acc.vertexOffset + Len(g.position) ]

\* mutation of mergeLoop: the vertex offset is set to the vertex count of
\* the geometry instead of growing by it
mutMergeLoopOffsetSet(geometries, n) ==
    IF n = 0 THEN mergeStart
    ELSE LET acc == mergeLoop(geometries, n - 1)
             g == geometries[n]
         IN [ position |-> acc.position \o g.position,
              normal |-> acc.normal \o g.normal,
              index |-> acc.index \o
                  [ i \in 1..Len(g.index) |-> g.index[i] + acc.vertexOffset ],
              positionOffset |-> acc.positionOffset + FloatsPerVertex * Len(g.position),
              normalOffset |-> acc.normalOffset + FloatsPerVertex * Len(g.normal),
              indexOffset |-> acc.indexOffset + Len(g.index),
              vertexOffset |-> Len(g.position) ]

\* the forEach of stlExporter.ts:126-157 after n geometries: what has been
\* written to the merged arrays and the running offsets
mergeLoop(geometries, n) ==
    IF n = 0 THEN mergeStart
    ELSE LET acc == mergeLoop(geometries, n - 1)
             g == geometries[n]
         IN [ position |-> acc.position \o g.position,
              normal |-> acc.normal \o g.normal,
              index |-> acc.index \o
                  [ i \in 1..Len(g.index) |-> g.index[i] + acc.vertexOffset ],
              positionOffset |-> acc.positionOffset + FloatsPerVertex * Len(g.position),
              normalOffset |-> acc.normalOffset + FloatsPerVertex * Len(g.normal),
              indexOffset |-> acc.indexOffset + Len(g.index),
              vertexOffset |-> acc.vertexOffset + Len(g.position) ]

\* an array of `length` items, zero except for the items written
filled(written, length, zero) ==
    [ i \in 1..length |-> IF i <= Len(written) THEN written[i] ELSE zero ]

\* mergeBufferGeometries: nothing for an empty list, the geometry itself for
\* a single one, else arrays allocated from the counts and filled by the
\* loop; the final offsets are kept with the result
mergeBufferGeometries(geometries) ==
    IF Len(geometries) = 0 THEN [ position |-> << >>, index |-> << >> ]
    ELSE IF Len(geometries) = 1 THEN geometries[1]
    ELSE LET c == countLoop(geometries, Len(geometries))
             m == mergeLoop(geometries, Len(geometries))
         IN [ position |-> filled(m.position, c.vertexCount, << 0, 0, 0 >>),
              normal |-> filled(m.normal, c.vertexCount, << 0, 0, 0 >>),
              index |-> filled(m.index, c.indexCount, 0),
              positionOffset |-> m.positionOffset,
              normalOffset |-> m.normalOffset,
              indexOffset |-> m.indexOffset,
              vertexOffset |-> m.vertexOffset ]

mergeGeometries(geom) == mergeBufferGeometries(groupGeometries(geom))

\* STLExporter.parse(mesh, {binary: true}) on an indexed geometry: one
\* 50-byte record per index triple after the 84-byte preamble
stlEncode(g) ==
    LET n == Len(g.index) \div 3
    IN [ triangleCount |-> n,
         byteLength |-> StlHeaderBytes + StlTriangleBytes * n,
         triangles |-> [ t \in 1..n |->
                           << g.position[g.index[3 * t - 2] + 1],
                              g.position[g.index[3 * t - 1] + 1],
                              g.position[g.index[3 * t] + 1] >> ] ]

(***************************************************************************)
(* utils/imageProcessing.ts: resizeAndGrayscale                            *)
(***************************************************************************)
\* luminance weights 0.299, 0.587, 0.114 in thousandths
RedWeight == 299
GreenWeight == 587
BlueWeight == 114
WeightDivisor == 1000

\* mutation of targetHeightOf: Math.floor in place of Math.round
mutTargetHeightOf(image, targetWidth) == Floor(targetWidth * image.height, image.width)

\* Math.round(targetWidth * (img.height / img.width)), img.width > 0
targetHeightOf(image, targetWidth) == Round(targetWidth * image.height, image.width)

\* CanvasRenderingContext2D.getImageData(0, 0, sw, sh) throws IndexSizeError
\* when sw or sh is zero and returns |sw| * |sh| pixels otherwise
getImageDataThrows(sw, sh) == sw = 0 \/ sh = 0

\* mutation of grayOf: the weighted sum is truncated
mutGrayOf(rgb) ==
    Floor(RedWeight * rgb[1] + GreenWeight * rgb[2] + BlueWeight * rgb[3], WeightDivisor)

\* gray = Math.round(0.299 * r + 0.587 * g + 0.114 * b)
grayOf(rgb) ==
    Round(RedWeight * rgb[1] + GreenWeight * rgb[2] + BlueWeight * rgb[3], WeightDivisor)

\* resizeAndGrayscale(img, targetWidth) when getImageData returned `pixels`
\* (RGB per pixel, row-major): the loops run only for positive sizes
resizeAndGrayscale(image, targetWidth, pixels) ==
    LET targetHeight == targetHeightOf(image, targetWidth)
    IN [ data |-> IF iterations(targetWidth, targetHeight) = 0 THEN << >>
                  ELSE [ y \in 1..targetHeight |->
                           [ x \in 1..targetWidth |->
                               grayOf(pixels[(y - 1) * targetWidth + x]) ] ],
         width |-> targetWidth,
         height |-> targetHeight ]

(***************************************************************************)
(* utils/imageProcessing.ts: ditherImage                                   *)
(*                                                                         *)
(* Brightness values of the working grid are rationals whose denominator   *)
(* divides (numberOfColors - 1) * 16^(pixels - 1); they are stored as      *)
(* integers multiplied by that scale, so every division by 16 is exact.    *)
(***************************************************************************)
\* brightness of a white pixel; step = 255 / levels
MaxBrightness == 255
\* denominator of the Floyd-Steinberg weights
KernelDivisor == 16

RECURSIVE Pow(_, _)
Pow(b, e) == IF e = 0 THEN 1 ELSE b * Pow(b, e - 1)

ditherScale(width, height, numberOfColors) ==
    Abs(numberOfColors - 1) * Pow(KernelDivisor, Max(iterations(width, height) - 1, 0))

\* step = 255 / levels, times the scale; negative when levels < 0
scaledStep(width, height, numberOfColors) ==
    (IF numberOfColors - 1 < 0 THEN -MaxBrightness ELSE MaxBrightness)
      * Pow(KernelDivisor, Max(iterations(width, height) - 1, 0))

\* mutation of addCell: the share is sixteen times too large, as if the
\* weights had not been divided by 16
mutAddCell(g, x, y, d) == [ g EXCEPT ![y + 1][x + 1] = @ + d * KernelDivisor ]

\* dithered[y][x] += d
addCell(g, x, y, d) == [ g EXCEPT ![y + 1][x + 1] = @ + d ]

\* mutation of quantize: the level index is not multiplied back by step
mutQuantize(oldPixel, step) == RoundDiv(oldPixel, step)

\* mutation of quantize: the level index is truncated instead of rounded (a
\* positive step is assumed)
mutQuantizeDown(oldPixel, step) ==
    ((oldPixel - (oldPixel % step)) \div step) * step

\* newPixel = Math.round(oldPixel / step) * step
quantize(oldPixel, step) == RoundDiv(oldPixel, step) * step

\* mutation of ditherPixel: the grid is addressed as one flat array, so the
\* right share of a row's last pixel lands on the first pixel of the next row
mutDitherPixel(g, x, y, width, height, step) ==
    LET oldPixel == g[y + 1][x + 1]
        newPixel == quantize(oldPixel, step)
        error == oldPixel - newPixel
        g1 == [ g EXCEPT ![y + 1][x + 1] = newPixel ]
        g2 == IF x + 1 < width
              THEN addCell(g1, x + 1, y, (error * 7) \div KernelDivisor)
              ELSE IF y + 1 < height
                   THEN addCell(g1, 0, y + 1, (error * 7) \div KernelDivisor)
                   ELSE g1
        g3 == IF y + 1 < height /\ x - 1 >= 0
              THEN addCell(g2, x - 1, y + 1, (error * 3) \div KernelDivisor) ELSE g2
        g4 == IF y + 1 < height
              THEN addCell(g3, x, y + 1, (error * 5) \div KernelDivisor) ELSE g3
        g5 == IF y + 1 < height /\ x + 1 < width
              THEN addCell(g4, x + 1, y + 1, (error * 1) \div KernelDivisor) ELSE g4
    IN g5

\* one iteration of the loop body, imageProcessing.ts:77-95
ditherPixel(g, x, y, width, height, step) ==
    LET oldPixel == g[y + 1][x + 1]
        newPixel == quantize(oldPixel, step)
        error == oldPixel - newPixel
        g1 == [ g EXCEPT ![y + 1][x + 1] = newPixel ]
        g2 == IF x + 1 < width
              THEN addCell(g1, x + 1, y, (error * 7) \div KernelDivisor) ELSE g1
        g3 == IF y + 1 < height /\ x - 1 >= 0
              THEN addCell(g2, x - 1, y + 1, (error * 3) \div KernelDivisor) ELSE g2
        g4 == IF y + 1 < height
              THEN addCell(g3, x, y + 1, (error * 5) \div KernelDivisor) ELSE g3
        g5 == IF y + 1 < height /\ x + 1 < width
              THEN addCell(g4, x + 1, y + 1, (error * 1) \div KernelDivisor) ELSE g4
    IN g5

\* the working grid after the first p pixels in row-major order
RECURSIVE ditherLoop(_, _, _, _, _)
ditherLoop(g, width, height, step, p) ==
    IF p = 0 THEN g
    ELSE ditherPixel(ditherLoop(g, width, height, step, p - 1),
                     (p - 1) % width, (p - 1) \div width, width, height, step)

\* mutation of copyRows: the outer array is new but holds the input's rows
mutCopyRows(data) == [ y \in 1..Len(data) |-> y ]

\* data.map(row => [...row]): which array each row of the working grid is,
\* 0 for an array created by the call and y for the input's row y
copyRows(data) == [ y \in 1..Len(data) |-> 0 ]

\* ditherImage(imageData, numberOfColors): no validation of numberOfColors.
\* The result's data is scaled by `scale`, and rowOf tells which array each of
\* its rows is.  With numberOfColors = 1, levels = 0 and step = 255 / 0 =
\* Infinity: Math.round(oldPixel / Infinity) * Infinity = 0 * Infinity = NaN
\* for every visited cell.
ditherImage(imageData, numberOfColors) ==
    LET width == imageData.width
        height == imageData.height
        scale == ditherScale(width, height, numberOfColors)
        step == scaledStep(width, height, numberOfColors)
        copy == [ y \in 1..Len(imageData.data) |->
                    [ x \in 1..Len(imageData.data[y]) |-> imageData.data[y][x] * scale ] ]
    IN IF numberOfColors - 1 = 0
       THEN [ data |-> [ y \in 1..Len(imageData.data) |->
                           [ x \in 1..Len(imageData.data[y]) |-> NaN ] ],
              width |-> width,
              height |-> height,
              scale |-> 1,
              rowOf |-> copyRows(imageData.data) ]
       ELSE [ data |-> ditherLoop(copy, width, height, step, iterations(width, height)),
              width |-> width,
              height |-> height,
              scale |-> scale,
              rowOf |-> copyRows(imageData.data) ]

\* the caller's imageData once ditherImage has returned `result`: a row of the
\* input that is also a row of the working grid holds what the loop wrote
inputAfterDither(imageData, result) ==
    [ imageData EXCEPT !.data =
        [ y \in 1..Len(imageData.data) |->
            IF \E w \in 1..Len(result.rowOf) : result.rowOf[w] = y
            THEN LET w == CHOOSE w \in 1..Len(result.rowOf) : result.rowOf[w] = y
                 IN [ x \in 1..Len(result.data[w]) |-> result.data[w][x] \div result.scale ]
            ELSE imageData.data[y] ] ]

(***************************************************************************)
(* utils/imageProcessing.ts: roundToLayerHeight on IEEE 754 doubles        *)
(*                                                                         *)
(* `height / layerHeight` is a division of two doubles, and whether the    *)
(* quotient of 0.15 and 0.1 is 1.5 or the double just below it decides     *)
(* what Math.round returns.  A positive double is m * 2^e with             *)
(* 2^52 <= m < 2^53; m is kept as LimbCount limbs of LimbBits bits, least  *)
(* significant first, because it does not fit a 32-bit integer.            *)
(***************************************************************************)
\* bits of the significand of a double
MantissaBits == 53
LimbBits == 15
LimbCount == 4
LimbBase == Pow(2, LimbBits)

\* the limbs limb(1) .. limb(LimbCount), as a tuple
bigFrom(limb(_)) == << limb(1), limb(2), limb(3), limb(4) >>

bigOf(n) == << n % LimbBase, (n \div LimbBase) % LimbBase, n \div (LimbBase * LimbBase), 0 >>
bigToInt(a) == a[1] + LimbBase * a[2]
bigIsZero(a) == \A i \in 1..LimbCount : a[i] = 0
bigPow2(n) ==
    LET limb(i) == IF i = (n \div LimbBits) + 1 THEN Pow(2, n % LimbBits) ELSE 0
    IN bigFrom(limb)

\* a >= b
bigGE(a, b) ==
    LET d == { i \in 1..LimbCount : a[i] # b[i] }
    IN IF d = {} THEN TRUE
       ELSE LET top == CHOOSE i \in d : \A j \in d : j <= i
            IN a[top] > b[top]

\* the borrow into limb i of a - b
RECURSIVE borrowInto(_, _, _)
borrowInto(a, b, i) ==
    IF i = 1 THEN 0
    ELSE IF a[i - 1] - b[i - 1] - borrowInto(a, b, i - 1) < 0 THEN 1 ELSE 0

\* a - b for a >= b
bigSub(a, b) ==
    LET limb(i) == (a[i] - b[i] - borrowInto(a, b, i) + LimbBase) % LimbBase
    IN bigFrom(limb)

\* 2 * a + bit
bigDouble(a, bit) ==
    LET limb(i) == ((2 * a[i]) % LimbBase)
                     + (IF i = 1 THEN bit ELSE a[i - 1] \div (LimbBase \div 2))
    IN bigFrom(limb)

\* floor(a / 2)
bigHalf(a) ==
    LET limb(i) == (a[i] \div 2)
                     + (IF i < LimbCount THEN (a[i + 1] % 2) * (LimbBase \div 2) ELSE 0)
    IN bigFrom(limb)

\* a + 1
bigInc(a) ==
    LET limb(i) ==
            LET carry == IF \A j \in 1..(i - 1) : a[j] = LimbBase - 1 THEN 1 ELSE 0
            IN (a[i] + carry) % LimbBase
    IN bigFrom(limb)

\* the carry into limb i of k * a
RECURSIVE mulCarry(_, _, _)
mulCarry(a, k, i) ==
    IF i = 1 THEN 0 ELSE (k * a[i - 1] + mulCarry(a, k, i - 1)) \div LimbBase

\* k * a for a small k
bigMulSmall(a, k) ==
    LET limb(i) == (k * a[i] + mulCarry(a, k, i)) % LimbBase
    IN bigFrom(limb)

\* limb j of a, 0 outside 1..LimbCount
limbAt(a, j) == IF j \in 1..LimbCount THEN a[j] ELSE 0

\* a * 2^s, for a result below 2^(LimbBits * LimbCount)
bigShl(a, s) ==
    LET k == s \div LimbBits
        r == s % LimbBits
        limb(i) == ((limbAt(a, i - k) * Pow(2, r)) % LimbBase)
                     + (limbAt(a, i - k - 1) \div Pow(2, LimbBits - r))
    IN bigFrom(limb)

\* floor(a / 2^s)
bigShr(a, s) ==
    LET k == s \div LimbBits
        r == s % LimbBits
        limb(i) == (limbAt(a, i + k) \div Pow(2, r))
                     + ((limbAt(a, i + k + 1) % Pow(2, r)) * Pow(2, LimbBits - r))
    IN bigFrom(limb)

\* the element of a set of one element; binding a value through such a set
\* evaluates it before it is used
the(S) == CHOOSE x \in S : TRUE

\* number of bits of a
bigBitLen(a) ==
    CHOOSE n \in 0..(LimbBits * LimbCount) :
        /\ n = 0 \/ bigGE(a, bigPow2(n - 1))
        /\ n = LimbBits * LimbCount \/ ~bigGE(a, bigPow2(n))

\* a shifted right by d bits, rounded to nearest, ties to even; `sticky` tells
\* that the exact value is above a
RECURSIVE shiftRound(_, _, _, _)
shiftRound(a, d, guard, sticky) ==
    IF d = 0
    THEN IF guard = 1 /\ (sticky \/ a[1] % 2 = 1) THEN bigInc(a) ELSE a
    ELSE shiftRound(bigHalf(a), d - 1, a[1] % 2, sticky \/ guard = 1)

doubleZero == [ m |-> bigOf(0), e |-> 0 ]

\* the double nearest to q * 2^e (q > 0), or to a value just above it
toDouble(q, e, sticky) ==
    LET d == bigBitLen(q) - MantissaBits
    IN IF d <= 0 THEN [ m |-> bigShl(q, -d), e |-> e + d ]
       ELSE LET m == shiftRound(q, d, 0, sticky)
            IN IF bigGE(m, bigPow2(MantissaBits))
               THEN [ m |-> bigHalf(m), e |-> e + d + 1 ]
               ELSE [ m |-> m, e |-> e + d ]

\* n steps of the binary long division by d: each step moves one quotient
\* bit from the remainder st.r to st.q
RECURSIVE divLoop(_, _, _)
divLoop(st, d, n) ==
    IF n = 0 THEN st
    ELSE IF n = 1
         THEN IF bigGE(st.r, d)
              THEN [ r |-> bigDouble(bigSub(st.r, d), 0), q |-> bigDouble(st.q, 1) ]
              ELSE [ r |-> bigDouble(st.r, 0), q |-> bigDouble(st.q, 0) ]
    ELSE the({ divLoop(mid, d, n - n \div 2) : mid \in { divLoop(st, d, n \div 2) } })

\* x / y of two doubles, y > 0
doubleDiv(x, y) ==
    IF bigIsZero(x.m) THEN doubleZero
    ELSE LET res == divLoop([ r |-> x.m, q |-> bigOf(0) ], y.m, MantissaBits + 3)
         IN toDouble(res.q, x.e - y.e - (MantissaBits + 2), ~bigIsZero(res.r))

\* k * y for an integer k >= 0
doubleTimes(k, y) ==
    IF k = 0 \/ bigIsZero(y.m) THEN doubleZero
    ELSE toDouble(bigMulSmall(y.m, k), y.e, FALSE)

\* Math.round(x) = floor(x + 0.5) for 0 <= x < 2^30
mathRound(x) ==
    IF bigIsZero(x.m) \/ -x.e > MantissaBits THEN 0
    ELSE bigToInt(bigShr(x.m, -x.e)) + (bigShr(x.m, -x.e - 1)[1] % 2)

\* the same long division for a remainder and a divisor that are small
RECURSIVE decimalLoop(_, _, _)
decimalLoop(st, d, n) ==
    IF n = 0 THEN st
    ELSE IF n = 1
         THEN IF st.r >= d
              THEN [ r |-> 2 * (st.r - d), q |-> bigDouble(st.q, 1) ]
              ELSE [ r |-> 2 * st.r, q |-> bigDouble(st.q, 0) ]
    ELSE the({ decimalLoop(mid, d, n - n \div 2) : mid \in { decimalLoop(st, d, n \div 2) } })

\* p / q scaled by powers of two until q <= p < 2q: <<p, q, exponent>>
RECURSIVE scaled(_, _, _)
scaled(p, q, e) ==
    IF p >= 2 * q THEN scaled(p, 2 * q, e + 1)
    ELSE IF p < q THEN scaled(2 * p, q, e - 1)
    ELSE <<p, q, e>>

\* the double that the decimal literal p / q denotes
doubleOf(p, q) ==
    IF p = 0 THEN doubleZero
    ELSE LET t == scaled(p, q, 0)
             res == decimalLoop([ r |-> t[1], q |-> bigOf(0) ], t[2], MantissaBits + 2)
         IN toDouble(res.q, t[3] - (MantissaBits + 1), res.r # 0)

\* mutation of roundedQuotient: Math.floor in place of Math.round
mutRoundedQuotient(height, layerHeight) ==
    LET x == doubleDiv(height, layerHeight)
    IN IF bigIsZero(x.m) \/ -x.e > MantissaBits THEN 0
       ELSE bigToInt(bigShr(x.m, -x.e))

\* Math.round(height / layerHeight)
roundedQuotient(height, layerHeight) == mathRound(doubleDiv(height, layerHeight))

\* roundToLayerHeight(height, layerHeight) on doubles, imageProcessing.ts:107
roundDoubleToLayerHeight(height, layerHeight) ==
    doubleTimes(roundedQuotient(height, layerHeight), layerHeight)

(***************************************************************************)
(* utils/imageProcessing.ts: loadImageFromFile, processImage               *)
(***************************************************************************)
\* the selectable files: two images and one file that is not an image
FileNames == {"horizontal.jpg", "vertical.png", "corrupt.png"}
Files == { [ name |-> n ] : n \in FileNames }

\* a failed call: the rejection of the promise
rejected(error) == [ tag |-> "rejected", error |-> error ]
isRejected(v) == "tag" \in DOMAIN v /\ v.tag = "rejected"

\* loadImageFromFile: resolves with the decoded image (its natural size) on
\* img.onload and rejects on img.onerror
loadImageFromFile(file) ==
    IF file.name = "corrupt.png" THEN rejected("error")
    ELSE [ width |-> 2, height |-> 2 ]

\* what drawImage leaves on a targetWidth x targetHeight canvas for the file:
\* horizontal.jpg is a black / white checkerboard, vertical.png uniform gray
canvasPixels(file, targetWidth, targetHeight) ==
    [ i \in 1..iterations(targetWidth, targetHeight) |->
        IF file.name = "horizontal.jpg"
        THEN IF (((i - 1) % targetWidth) + ((i - 1) \div targetWidth)) % 2 = 0
             THEN <<0, 0, 0>> ELSE <<255, 255, 255>>
        ELSE <<128, 128, 128>> ]

\* processImage(file, widthInPixels, numberOfColors): the value the promise
\* resolves with, or its rejection
processImage(file, widthInPixels, numberOfColors) ==
    LET image == loadImageFromFile(file)
    IN IF isRejected(image) THEN image
       ELSE LET targetHeight == targetHeightOf(image, widthInPixels)
            IN IF getImageDataThrows(widthInPixels, targetHeight)
               THEN rejected("IndexSizeError")
               ELSE ditherImage(
                        resizeAndGrayscale(image, widthInPixels,
                            canvasPixels(file, widthInPixels, targetHeight)),
                        numberOfColors)

(***************************************************************************)
(* Input sets                                                              *)
(***************************************************************************)
CellSizes == {400, 1000, 1100, 2100, 5000}
WallWidths == {200, 220, 400, 800, 2100}
LayerHeights == {50, 100, 200}
BottomThks == {400, 800}
ColorOverrides == {0, 1, 2, 11}
PixelWidths == {50, 100}
PresetNames == {"default", "p2", "p3", "fuji"}

\* a ProcessedImageData from its rows
Grid(rows) == [ data |-> rows, width |-> Len(rows[1]), height |-> Len(rows) ]

\* the test patterns of the e2e tests: diagonal, its inverse, uniform gray
TestPatterns == {"diagonal", "inverse", "uniform"}
testPixel(pattern, x, y) ==
    CASE pattern = "diagonal" -> IF (x + y) % 2 = 0 THEN 0 ELSE 255
      [] pattern = "inverse" -> IF (x + y) % 2 = 0 THEN 255 ELSE 0
      [] OTHER -> 128
TestGrid(w, h, pattern) ==
    Grid([ y \in 1..h |-> [ x \in 1..w |-> testPixel(pattern, x - 1, y - 1) ] ])
TestGrids ==
    { TestGrid(w, h, p) : w \in 1..MaxGridWidth, h \in 1..MaxGridHeight,
                          p \in TestPatterns }

GeomConfigs ==
    { [ c EXCEPT !.doHorizImage = dh, !.doVertImage = dv, !.shouldDoPlusWalls = pw ] :
        c \in {presetConfigs.default, presetConfigs.p2},
        dh \in BOOLEAN, dv \in BOOLEAN, pw \in BOOLEAN }

\* configs handed to generateShadowCasterGeometry directly: two presets and
\* cells of 8 and 10 micrometres, around the 0.01 mm overlap, each with the
\* border of computeImageConfig, no border and a border of 4 mm
FootprintCells ==
    { presetConfigs.default, presetConfigs.p2,
      [ defaultConfig EXCEPT !.cellSize = 8, !.wallWidth = 4,
                             !.bottomThk = 2, !.layerHeight = 2 ],
      [ defaultConfig EXCEPT !.cellSize = 10, !.wallWidth = 4,
                             !.bottomThk = 2, !.layerHeight = 2 ] }
FootprintConfigs ==
    UNION { { [ computeImageConfig([ c EXCEPT !.shouldDoPlusWalls = pw ])
                  EXCEPT !.border = b ] :
                pw \in BOOLEAN, b \in { 0, c.cellSize, 4000 } } :
            c \in FootprintCells }

\* the props of the viewer: a 1 x 1 and a 2 x 1 grid, with and without plus
\* walls
ViewerGrids == { TestGrid(1, 1, "uniform"), TestGrid(2, 1, "diagonal") }
ViewerConfigs ==
    { defaultConfig, [ defaultConfig EXCEPT !.shouldDoPlusWalls = TRUE ] }

\* resolved configs with numberOfColors 17, 16, 1 and 2
HeightConfigs ==
    { presetConfigs.default, presetConfigs.p2,
      [ defaultConfig EXCEPT !.numberOfColorsOverride = 1 ],
      [ defaultConfig EXCEPT !.numberOfColorsOverride = 2, !.layerHeight = 200 ] }

ShadeConfigs ==
    { [ defaultConfig EXCEPT !.numberOfColorsOverride = n, !.layerHeight = l ] :
        n \in 1..MaxColors, l \in {50, 100} }

DitherValues == {0, 64, 128, 255}
DitherShapes ==
    { wh \in (1..MaxDitherPixels) \X (1..MaxDitherPixels) :
        wh[1] * wh[2] <= MaxDitherPixels }
DitherGrids ==
    UNION { { Grid(rows) : rows \in [ 1..wh[2] -> [ 1..wh[1] -> DitherValues ] ] } :
            wh \in DitherShapes }
DitherConfigs ==
    { [ defaultConfig EXCEPT !.numberOfColorsOverride = n ] : n \in 2..MaxDitherColors }

\* grids for the pixel-by-pixel run of the quantizer: 3 x 2 has a pixel with
\* all four neighbours, 2 x 2 and 1 x 3 only have boundary pixels.  With three
\* colors 64 and 191 have errors of 63.5, just below step / 2 = 63.75.
StepValues == {0, 64, 191, 255}
StepShapes == { <<3, 2>>, <<2, 2>>, <<1, 3>> }
StepGrids ==
    UNION { { Grid(rows) : rows \in [ 1..wh[2] -> [ 1..wh[1] -> StepValues ] ] } :
            wh \in StepShapes }
StepConfigs ==
    { [ defaultConfig EXCEPT !.numberOfColorsOverride = n ] : n \in {2, 3} }

\* the boxes of the 2 x 2 diagonal pattern: the base and four left walls
GroupBoxes ==
    LET geom == generateShadowCasterGeometry(TestGrid(2, 2, "diagonal"), Null,
                                             computeImageConfig(defaultConfig))
    IN { geom.base } \cup { geom.leftWalls[i] : i \in 1..Len(geom.leftWalls) }
\* groups of 0..MaxGroupSize meshes
BoxCollections == UNION { [ 1..n -> GroupBoxes ] : n \in 0..MaxGroupSize }

\* widthInPixels and numberOfColorsOverride entered while images are loaded
AppWidths == {0, 1}
AppColors == {2, 3}
\* the file selected while parameters change
AppFiles == { [ name |-> "vertical.png" ] }

\* natural sizes of the loaded image
Images == { [ width |-> w, height |-> h ] : w \in 1..MaxImageSide, h \in 1..MaxImageSide }
\* the colours of the mocked canvas in imageProcessing.test.ts: white, black,
\* gray, red, green
CanvasColors ==
    { <<255, 255, 255>>, <<0, 0, 0>>, <<128, 128, 128>>, <<255, 0, 0>>, <<0, 255, 0>> }
\* every neutral colour, and every colour with channels at and next to the
\* ends and the middle of the range
ChannelValues == {0, 1, 127, 128, 254, 255}
GrayColors ==
    { <<v, v, v>> : v \in 0..MaxBrightness }
      \cup (ChannelValues \X ChannelValues \X ChannelValues)
\* decimal literals with two decimals: heights 0.00 .. 0.60 and the layer
\* heights of the tests and presets, in hundredths
HundredthsPerUnit == 100
RoundHeights == 0..60
RoundLayerHeights == {5, 10, 15, 20}
QuantizerWidths == {-2, -1, 0, 1, 2}
\* numberOfColors 1..MaxDitherColors by override, 0 and -2 derived from
\* cellSize <= wallWidth
QuantizerConfigs ==
    { [ c EXCEPT !.widthInPixels = w ] :
        w \in QuantizerWidths,
        c \in { [ defaultConfig EXCEPT !.numberOfColorsOverride = n ] :
                  n \in 1..MaxDitherColors }
               \cup { [ defaultConfig EXCEPT !.cellSize = 400 ],
                      [ defaultConfig EXCEPT !.cellSize = 400, !.wallWidth = 800,
                                             !.layerHeight = 200 ] } }

(***************************************************************************)
(* Actions                                                                 *)
(***************************************************************************)
fileVars == <<horizFile, vertFile>>
effectVars == <<horizImageData, vertImageData, isProcessing, inflight>>
appVars == <<horizFile, vertFile, isProcessing, inflight>>
quantizerVars == <<resized, dithered, loadedImg, thrown>>
exportVars == <<geometry, merged, stl, bounds>>
callVars == <<working, pos, rounding>>
viewerVars == <<scene, geometryGroupRef, disposed, built>>

\* the dependency array of App's image-processing effect
effectDeps(horiz, vert, cfg) == <<horiz, vert, cfg.widthInPixels, cfg.numberOfColors>>

\* processImages up to its await: with no file the image data are cleared,
\* otherwise isProcessing is set and the two processImage calls are started.
\* Nothing cancels or marks the calls already in flight.
processImages(horiz, vert, cfg) ==
    IF horiz = Null /\ vert = Null
    THEN /\ horizImageData' = Null
         /\ vertImageData' = Null
         /\ UNCHANGED <<isProcessing, inflight>>
    ELSE /\ Len(inflight) < MaxInFlight
         /\ isProcessing' = TRUE
         /\ inflight' = Append(inflight,
                [ horizFile |-> horiz, vertFile |-> vert,
                  widthInPixels |-> cfg.widthInPixels,
                  numberOfColors |-> cfg.numberOfColors ])
         /\ UNCHANGED <<horizImageData, vertImageData>>

\* the effect after a render: runs processImages when a dependency changed
runEffect(horiz, vert, cfg) ==
    IF effectDeps(horiz, vert, cfg) # effectDeps(horizFile, vertFile, computed)
    THEN processImages(horiz, vert, cfg)
    ELSE UNCHANGED effectVars

\* App render after setConfig: computedConfig = computeImageConfig(config),
\* then the image-processing effect
setConfig(c) ==
    /\ config' = c
    /\ computed' = computeImageConfig(c)
    /\ runEffect(horizFile, vertFile, computed')
    /\ UNCHANGED <<fileVars, exportVars, quantizerVars, canvas, callVars, viewerVars>>

\* ParameterControls.handleChange(field) for each input of the form
handleChange ==
    \/ \E v \in CellSizes : setConfig([config EXCEPT !.cellSize = v])
    \/ \E v \in WallWidths : setConfig([config EXCEPT !.wallWidth = v])
    \/ \E v \in LayerHeights : setConfig([config EXCEPT !.layerHeight = v])
    \/ \E v \in BottomThks : setConfig([config EXCEPT !.bottomThk = v])
    \/ \E v \in ColorOverrides : setConfig([config EXCEPT !.numberOfColorsOverride = v])
    \/ \E v \in PixelWidths : setConfig([config EXCEPT !.widthInPixels = v])
    \/ \E v \in BOOLEAN : setConfig([config EXCEPT !.doHorizImage = v])
    \/ \E v \in BOOLEAN : setConfig([config EXCEPT !.doVertImage = v])

\* ParameterControls.handleChange for the two inputs that the image effect
\* depends on, over sizes the quantizer model can compute
handleQuantizerChange ==
    \/ \E v \in AppWidths : setConfig([config EXCEPT !.widthInPixels = v])
    \/ \E v \in AppColors : setConfig([config EXCEPT !.numberOfColorsOverride = v])

\* App.handleImagesSelected, the render and the image-processing effect
handleImagesSelected(horiz, vert) ==
    /\ horizFile' = horiz
    /\ vertFile' = vert
    /\ runEffect(horiz, vert, computed)
    /\ UNCHANGED <<config, computed, exportVars, quantizerVars, canvas, callVars,
                   viewerVars>>

\* mutation of horizChangeArgs: the vertical slot is passed as null
mutHorizChangeArgs(file, horiz, vert) == <<file, Null>>

\* ImageUpload.handleHorizChange: the arguments of onImagesSelected
horizChangeArgs(file, horiz, vert) == <<file, vert>>

\* ImageUpload.handleVertChange: the arguments of onImagesSelected
vertChangeArgs(file, horiz, vert) == <<horiz, file>>

\* ImageUpload.handleHorizChange with file = e.target.files?.[0] || null
handleHorizChange(file) ==
    LET args == horizChangeArgs(file, horizFile, vertFile)
    IN handleImagesSelected(args[1], args[2])

\* ImageUpload.handleVertChange
handleVertChange(file) ==
    LET args == vertChangeArgs(file, horizFile, vertFile)
    IN handleImagesSelected(args[1], args[2])

\* the value of horizPromise / vertPromise of a started call
promiseOf(file, request) ==
    IF file = Null THEN Null
    ELSE processImage(file, request.widthInPixels, request.numberOfColors)

removeAt(seq, i) == SubSeq(seq, 1, i - 1) \o SubSeq(seq, i + 1, Len(seq))

\* the continuation of processImages after `await Promise.all` for the i-th
\* call in flight: the calls complete in any order
CompleteProcessing(i) ==
    /\ i \in 1..Len(inflight)
    /\ LET request == inflight[i]
           horizData == promiseOf(request.horizFile, request)
           vertData == promiseOf(request.vertFile, request)
       IN IF isRejected(horizData) \/ isRejected(vertData)
          THEN UNCHANGED <<horizImageData, vertImageData>>
          ELSE /\ horizImageData' = horizData
               /\ vertImageData' = vertData
    /\ isProcessing' = FALSE
    /\ inflight' = removeAt(inflight, i)
    /\ UNCHANGED <<config, computed, fileVars, exportVars, quantizerVars, canvas,
                   callVars, viewerVars>>

\* ParameterControls.handlePresetChange
handlePresetChange ==
    \E name \in PresetNames : setConfig(presetConfigs[name])

\* createThreeGeometry: a new Group with one mesh per box; id stands for the
\* identity of the object
createThreeGeometry(geom, id) ==
    [ id |-> id, geometry |-> geom, children |-> Len(allGeometries(geom)) ]

\* disposeGroup: which group lost its geometries and how many meshes had
\* their geometry disposed by the traverse
disposeGroup(group) == [ id |-> group.id, meshes |-> group.children ]

\* mutation of sceneRemove: the previous group stays in the scene
mutSceneRemove(s, group) == s

\* sceneRef.current.remove(group)
sceneRemove(s, group) == s \ {group}

\* the scene and the disposed geometries after ThreeViewer.tsx:153-157
sceneCleared ==
    IF geometryGroupRef # Null THEN sceneRemove(scene, geometryGroupRef) ELSE scene
disposedAfter ==
    IF geometryGroupRef # Null THEN disposed \cup { disposeGroup(geometryGroupRef) }
    ELSE disposed

\* the try block of the geometry effect running to its end: the group is
\* stored in the ref, added to the scene and reported to onGeometryReady,
\* which is App's setGeometry
showGeometry(horiz, vert, cfg) ==
    LET shadowCasterGeometry == generateShadowCasterGeometry(horiz, vert, cfg)
        geometryGroup == createThreeGeometry(shadowCasterGeometry, built + 1)
    IN /\ built < MaxGroupsBuilt
       /\ disposed' = disposedAfter
       /\ geometryGroupRef' = geometryGroup
       /\ scene' = sceneCleared \cup { geometryGroup }
       /\ bounds' = calculateSceneBounds(shadowCasterGeometry)
       /\ geometry' = shadowCasterGeometry
       /\ built' = built + 1
       /\ thrown' = "none"

\* the try block left by an exception of generateShadowCasterGeometry or
\* createThreeGeometry (an allocation that fails): the catch logs it
failGeometry ==
    /\ disposed' = disposedAfter
    /\ geometryGroupRef' = Null
    /\ scene' = sceneCleared
    /\ thrown' = "Error"
    /\ UNCHANGED <<built, geometry, bounds>>

\* ThreeViewer's geometry effect, ThreeViewer.tsx:137-226, on a mounted
\* viewer (sceneRef.current is set)
geometryEffect(horiz, vert, cfg) ==
    IF horiz = Null /\ vert = Null
    THEN UNCHANGED <<viewerVars, geometry, bounds, thrown>>
    ELSE showGeometry(horiz, vert, cfg) \/ failGeometry

\* ThreeViewer's geometry effect on its first run with image data: generate
\* and report through onGeometryReady
GenerateGeometry ==
    /\ ~(horizImageData = Null /\ vertImageData = Null)
    /\ geometry = Null
    /\ showGeometry(horizImageData, vertImageData, computed)
    /\ UNCHANGED <<config, computed, horizImageData, vertImageData, merged, stl,
                   resized, dithered, loadedImg, appVars, canvas, callVars>>

\* ThreeViewer rendered with new image data: the effect runs
SetImageData ==
    \E horiz \in ViewerGrids \cup {Null} : \E vert \in ViewerGrids \cup {Null} :
        /\ << horiz, vert >> # << horizImageData, vertImageData >>
        /\ horizImageData' = horiz
        /\ vertImageData' = vert
        /\ geometryEffect(horiz, vert, computed)
        /\ UNCHANGED <<config, computed, merged, stl, resized, dithered, loadedImg,
                       appVars, canvas, callVars>>

\* ThreeViewer rendered after a parameter change: the effect runs
SetViewerConfig ==
    \E c \in ViewerConfigs :
        /\ c # config
        /\ config' = c
        /\ computed' = computeImageConfig(c)
        /\ geometryEffect(horizImageData, vertImageData, computed')
        /\ UNCHANGED <<horizImageData, vertImageData, merged, stl, resized, dithered,
                       loadedImg, appVars, canvas, callVars>>

\* any other render of App: computeImageConfig returns a new object, so the
\* effect's dependency `config` has changed and the effect runs again
RenderAgain ==
    /\ geometryEffect(horizImageData, vertImageData, computed)
    /\ UNCHANGED <<config, computed, horizImageData, vertImageData, merged, stl,
                   resized, dithered, loadedImg, appVars, canvas, callVars>>

\* exportToSTL up to the Blob: merge the group, encode as binary STL
exportOf(geom) ==
    /\ merged' = mergeGeometries(geom)
    /\ stl' = stlEncode(merged')

\* ExportButton.handleExport with the viewer's geometry
ExportGeometry ==
    /\ geometry # Null
    /\ stl = Null
    /\ exportOf(geometry)
    /\ UNCHANGED <<config, computed, horizImageData, vertImageData, geometry,
                   resized, dithered, loadedImg, thrown, appVars, bounds, canvas,
                   callVars, viewerVars>>

\* ExportButton.handleExport without geometry: generate on demand
ExportOnDemand ==
    /\ geometry = Null
    /\ ~(horizImageData = Null /\ vertImageData = Null)
    /\ stl = Null
    /\ exportOf(generateShadowCasterGeometry(horizImageData, vertImageData, computed))
    /\ UNCHANGED <<config, computed, horizImageData, vertImageData, geometry,
                   resized, dithered, loadedImg, thrown, appVars, bounds, canvas,
                   callVars, viewerVars>>

\* mergeGeometries on a group of any number of meshes, then
\* STLExporter.parse: for a geometry without attributes the exporter either
\* writes a file of 0 triangles or throws a TypeError, by library version
MergeGroup ==
    /\ merged = Null
    /\ \E boxes \in BoxCollections :
          /\ merged' = mergeBufferGeometries(
                           [ i \in 1..Len(boxes) |-> boxGeometry(boxes[i]) ])
          /\ IF Len(merged'.position) = 0
             THEN \/ stl' = stlEncode(merged') /\ thrown' = "none"
                  \/ stl' = Null /\ thrown' = "TypeError"
             ELSE stl' = stlEncode(merged') /\ thrown' = "none"
    /\ UNCHANGED <<config, computed, horizImageData, vertImageData, geometry,
                   resized, dithered, loadedImg, appVars, bounds, canvas, callVars,
                   viewerVars>>

\* processImage's resize step on the loaded image; the canvas content after
\* drawImage is the browser's resampling, any of `colours` per pixel
resizeFrom(colours) ==
    /\ loadedImg # Null
    /\ resized = Null
    /\ thrown = "none"
    /\ LET targetWidth == config.widthInPixels
           targetHeight == targetHeightOf(loadedImg, targetWidth)
       IN IF getImageDataThrows(targetWidth, targetHeight)
          THEN /\ thrown' = "IndexSizeError"
               /\ resized' = Null
               /\ canvas' = canvas
          ELSE /\ \E pixels \in [ 1..iterations(targetWidth, targetHeight) -> colours ] :
                     /\ canvas' = pixels
                     /\ resized' = resizeAndGrayscale(loadedImg, targetWidth, pixels)
               /\ thrown' = "none"
    /\ UNCHANGED <<config, computed, horizImageData, vertImageData, geometry,
                   merged, stl, dithered, loadedImg, appVars, bounds, callVars,
                   viewerVars>>

\* the resize step with the colours of the mocked canvas
ResizeAndGrayscale == resizeFrom(CanvasColors)

\* the resize step to a single pixel, over the colours of GrayColors
ResizeOnePixel ==
    /\ iterations(config.widthInPixels,
                  targetHeightOf(loadedImg, config.widthInPixels)) = 1
    /\ resizeFrom(GrayColors)

\* processImage's quantization step
DitherImage ==
    /\ resized # Null
    /\ dithered = Null
    /\ dithered' = ditherImage(resized, computed.numberOfColors)
    /\ resized' = inputAfterDither(resized, dithered')
    /\ UNCHANGED <<config, computed, horizImageData, vertImageData, geometry,
                   merged, stl, loadedImg, thrown, appVars, bounds, canvas, callVars,
                   viewerVars>>

\* ditherImage up to its loops: the copy of the rows, levels and step
StartDither ==
    /\ resized # Null
    /\ working = Null
    /\ dithered = Null
    /\ computed.numberOfColors >= 2
    /\ working' = [ y \in 1..Len(resized.data) |->
                      [ x \in 1..Len(resized.data[y]) |->
                          resized.data[y][x]
                            * ditherScale(resized.width, resized.height,
                                          computed.numberOfColors) ] ]
    /\ pos' = 0
    /\ UNCHANGED <<config, computed, horizImageData, vertImageData, exportVars,
                   quantizerVars, appVars, canvas, rounding, viewerVars>>

\* one iteration of the inner loop of ditherImage, at x = pos % width and
\* y = floor(pos / width)
DitherStep ==
    /\ working # Null
    /\ pos < iterations(resized.width, resized.height)
    /\ working' = ditherPixel(working, pos % resized.width, pos \div resized.width,
                              resized.width, resized.height,
                              scaledStep(resized.width, resized.height,
                                         computed.numberOfColors))
    /\ pos' = pos + 1
    /\ UNCHANGED <<config, computed, horizImageData, vertImageData, exportVars,
                   quantizerVars, appVars, canvas, rounding, viewerVars>>

\* the return of ditherImage once both loops have ended
ReturnDithered ==
    /\ working # Null
    /\ pos = iterations(resized.width, resized.height)
    /\ dithered = Null
    /\ dithered' = [ data |-> working,
                     width |-> resized.width,
                     height |-> resized.height,
                     scale |-> ditherScale(resized.width, resized.height,
                                           computed.numberOfColors),
                     rowOf |-> copyRows(resized.data) ]
    /\ UNCHANGED <<config, computed, horizImageData, vertImageData, exportVars,
                   resized, loadedImg, thrown, appVars, canvas, callVars, viewerVars>>

\* a call roundToLayerHeight(height, layerHeight) with the two decimal
\* literals, in hundredths
RoundToLayerHeight ==
    /\ rounding # Null
    /\ rounding.results = << >>
    /\ rounding' = [ rounding EXCEPT !.results =
          << roundDoubleToLayerHeight(doubleOf(rounding.height, HundredthsPerUnit),
                                      doubleOf(rounding.layerHeight, HundredthsPerUnit)) >> ]
    /\ UNCHANGED <<config, computed, horizImageData, vertImageData, exportVars,
                   quantizerVars, appVars, canvas, working, pos, viewerVars>>

\* a call roundToLayerHeight(r, layerHeight) on the value r just returned
RoundAgain ==
    /\ rounding # Null
    /\ Len(rounding.results) = 1
    /\ rounding' = [ rounding EXCEPT !.results =
          Append(@, roundDoubleToLayerHeight(rounding.results[1],
                        doubleOf(rounding.layerHeight, HundredthsPerUnit))) ]
    /\ UNCHANGED <<config, computed, horizImageData, vertImageData, exportVars,
                   quantizerVars, appVars, canvas, working, pos, viewerVars>>

(***************************************************************************)
(* Specifications                                                          *)
(***************************************************************************)
noFiles ==
    /\ horizFile = Null /\ vertFile = Null
    /\ isProcessing = FALSE /\ inflight = << >>

\* no canvas read yet, no ditherImage call running
noCall ==
    /\ canvas = << >>
    /\ working = Null /\ pos = 0
    /\ rounding = Null

\* the viewer after its mount effect: an empty scene, no geometry group
noGroups ==
    /\ scene = {} /\ geometryGroupRef = Null
    /\ disposed = {} /\ built = 0

noPipeline ==
    /\ noCall /\ noGroups
    /\ geometry = Null /\ merged = Null /\ stl = Null /\ bounds = Null
    /\ resized = Null /\ dithered = Null
    /\ loadedImg = Null /\ thrown = "none"
    /\ noFiles

\* the App with the parameter form: configuration resolver
Init ==
    /\ config = defaultConfig
    /\ computed = computeImageConfig(config)
    /\ horizImageData = Null /\ vertImageData = Null
    /\ noPipeline
Next == handleChange \/ handlePresetChange
Spec == Init /\ [][Next]_vars

\* geometry synthesis and export over the test grids
InitGeom ==
    /\ config \in GeomConfigs
    /\ computed = computeImageConfig(config)
    /\ horizImageData \in TestGrids \cup {Null}
    /\ vertImageData \in TestGrids \cup {Null}
    /\ noPipeline
NextGeom == GenerateGeometry \/ ExportGeometry \/ ExportOnDemand
SpecGeom == InitGeom /\ [][NextGeom]_vars

\* wall heights of two pixels of every pair of brightness values
InitHeight ==
    /\ config \in HeightConfigs
    /\ computed = computeImageConfig(config)
    /\ \E v1 \in 0..MaxBrightness : \E v2 \in (v1 + 1)..MaxBrightness :
          horizImageData = Grid(<< <<v1, v2>> >>)
    /\ vertImageData = Null
    /\ noPipeline
NextHeight == GenerateGeometry
SpecHeight == InitHeight /\ [][NextHeight]_vars

\* black / white grids for every number of colors
InitShades ==
    /\ config \in ShadeConfigs
    /\ computed = computeImageConfig(config)
    /\ \E a \in {0, MaxBrightness} : \E b \in {0, MaxBrightness} :
          horizImageData = Grid(<< <<a, b>>, <<b, a>> >>)
    /\ vertImageData = Null
    /\ noPipeline
NextShades == GenerateGeometry
SpecShades == InitShades /\ [][NextShades]_vars

\* the quantizer
InitDither ==
    /\ config \in DitherConfigs
    /\ computed = computeImageConfig(config)
    /\ horizImageData = Null /\ vertImageData = Null
    /\ geometry = Null /\ merged = Null /\ stl = Null /\ bounds = Null
    /\ resized \in DitherGrids
    /\ dithered = Null
    /\ loadedImg = Null /\ thrown = "none"
    /\ noFiles /\ noCall /\ noGroups
NextDither == DitherImage
SpecDither == InitDither /\ [][NextDither]_vars

\* the quantizer pixel by pixel
InitDiffuse ==
    /\ config \in StepConfigs
    /\ computed = computeImageConfig(config)
    /\ horizImageData = Null /\ vertImageData = Null
    /\ geometry = Null /\ merged = Null /\ stl = Null /\ bounds = Null
    /\ resized \in StepGrids
    /\ dithered = Null
    /\ loadedImg = Null /\ thrown = "none"
    /\ noFiles /\ noCall /\ noGroups
NextDiffuse == StartDither \/ DitherStep \/ ReturnDithered
SpecDiffuse == InitDiffuse /\ [][NextDiffuse]_vars

\* processImage from the loaded image on, for valid and invalid targetWidth
\* and numberOfColors
InitQuantizer ==
    /\ config \in QuantizerConfigs
    /\ computed = computeImageConfig(config)
    /\ horizImageData = Null /\ vertImageData = Null
    /\ geometry = Null /\ merged = Null /\ stl = Null /\ bounds = Null
    /\ resized = Null /\ dithered = Null
    /\ loadedImg \in Images
    /\ iterations(config.widthInPixels, targetHeightOf(loadedImg, config.widthInPixels))
          <= MaxDitherPixels
    /\ thrown = "none"
    /\ noFiles /\ noCall /\ noGroups
NextQuantizer == ResizeAndGrayscale \/ DitherImage
SpecQuantizer == InitQuantizer /\ [][NextQuantizer]_vars

\* resizeAndGrayscale of a square image to one pixel and to 2 x 2 pixels
InitGray ==
    /\ \E w \in {1, 2} : config = [ defaultConfig EXCEPT !.widthInPixels = w ]
    /\ computed = computeImageConfig(config)
    /\ horizImageData = Null /\ vertImageData = Null
    /\ geometry = Null /\ merged = Null /\ stl = Null /\ bounds = Null
    /\ resized = Null /\ dithered = Null
    /\ loadedImg = [ width |-> 4, height |-> 4 ]
    /\ thrown = "none"
    /\ noFiles /\ noCall /\ noGroups
NextGray == ResizeAndGrayscale \/ ResizeOnePixel
SpecGray == InitGray /\ [][NextGray]_vars

\* roundToLayerHeight on decimal literals, then on its own result
InitRound ==
    /\ config = defaultConfig
    /\ computed = computeImageConfig(config)
    /\ horizImageData = Null /\ vertImageData = Null
    /\ geometry = Null /\ merged = Null /\ stl = Null /\ bounds = Null
    /\ resized = Null /\ dithered = Null
    /\ loadedImg = Null /\ thrown = "none"
    /\ noFiles /\ noGroups
    /\ canvas = << >> /\ working = Null /\ pos = 0
    /\ \E h \in RoundHeights : \E l \in RoundLayerHeights :
          rounding = [ height |-> h, layerHeight |-> l, results |-> << >> ]
NextRound == RoundToLayerHeight \/ RoundAgain
SpecRound == InitRound /\ [][NextRound]_vars

\* the merger and encoder on groups of any size
InitMerge ==
    /\ config = defaultConfig
    /\ computed = computeImageConfig(config)
    /\ horizImageData = Null /\ vertImageData = Null
    /\ noPipeline
NextMerge == MergeGroup
SpecMerge == InitMerge /\ [][NextMerge]_vars

\* generateShadowCasterGeometry and calculateSceneBounds called with any
\* resolved config, as the end-to-end tests do
InitFootprint ==
    /\ computed \in FootprintConfigs
    /\ config = [ f \in DOMAIN defaultConfig |-> computed[f] ]
    /\ horizImageData \in TestGrids \cup {Null}
    /\ vertImageData \in TestGrids \cup {Null}
    /\ noPipeline
NextFootprint == GenerateGeometry
SpecFootprint == InitFootprint /\ [][NextFootprint]_vars

\* the mounted viewer before any image data has arrived
InitViewer ==
    /\ config = defaultConfig
    /\ computed = computeImageConfig(config)
    /\ horizImageData = Null /\ vertImageData = Null
    /\ noPipeline
NextViewer == SetImageData \/ SetViewerConfig \/ RenderAgain
SpecViewer == InitViewer /\ [][NextViewer]_vars

\* the App with the upload form: file selection, parameter changes and the
\* completion of the processImages calls in flight
InitApp ==
    /\ config = [ defaultConfig EXCEPT !.widthInPixels = 1, !.numberOfColorsOverride = 2 ]
    /\ computed = computeImageConfig(config)
    /\ horizImageData = Null /\ vertImageData = Null
    /\ noPipeline
NextApp ==
    \/ \E file \in AppFiles \cup {Null} : handleHorizChange(file)
    \/ \E file \in AppFiles \cup {Null} : handleVertChange(file)
    \/ handleQuantizerChange
    \/ \E i \in 1..MaxInFlight : CompleteProcessing(i)
SpecApp == InitApp /\ [][NextApp]_vars

\* the upload form alone: every file in either slot, parameters fixed
NextUpload ==
    \/ \E file \in Files \cup {Null} : handleHorizChange(file)
    \/ \E file \in Files \cup {Null} : handleVertChange(file)
    \/ \E i \in 1..MaxInFlight : CompleteProcessing(i)
SpecUpload == InitApp /\ [][NextUpload]_vars

(***************************************************************************)
(* Properties                                                              *)
(***************************************************************************)
\* the pixel that the i-th wall of a row-major wall list was made from
pixelOfWall(img, i) == pixelAt(img, (i - 1) % img.width, (i - 1) \div img.width)

horizActive == horizImageData # Null /\ computed.doHorizImage
vertActive == vertImageData # Null /\ computed.doVertImage

\* C1: leftWalls has width*height entries of the horizontal grid when that
\* axis is enabled (grid present and doHorizImage) and none otherwise, upWalls
\* likewise for the vertical grid, and the result carries exactly one base.
C1_BoxCount ==
    geometry # Null =>
        /\ Len(geometry.leftWalls) =
             (IF horizActive THEN horizImageData.width * horizImageData.height ELSE 0)
        /\ Len(geometry.upWalls) =
             (IF vertActive THEN vertImageData.width * vertImageData.height ELSE 0)
        /\ DOMAIN geometry = {"base", "leftWalls", "upWalls"}
        /\ DOMAIN geometry.base = {"position", "size"}

C1_Witness ==
    /\ geometry # Null
    /\ horizImageData # Null /\ vertImageData # Null
    /\ computed.doHorizImage /\ ~computed.doVertImage
    /\ Len(geometry.leftWalls) = MaxGridWidth * MaxGridHeight
    /\ Len(geometry.upWalls) = 0

\* the geometry the last export encoded
exportedGeometry ==
    IF geometry # Null THEN geometry
    ELSE generateShadowCasterGeometry(horizImageData, vertImageData, computed)

boxesOf(geom) == << geom.base >> \o geom.leftWalls \o geom.upWalls

\* v is one of the 8 corners of the box
isCornerOf(v, box) ==
    \A a \in 1..3 :
        v[a] \in { box.position[a] - box.size[a] \div 2,
                   box.position[a] + box.size[a] \div 2 }

\* C2: the exported STL holds N = 12 * (1 + leftWalls + upWalls) triangles in
\* 80 + 4 + 50 * N bytes, and the k-th block of 12 triangles is made of the
\* corners of the k-th box (base, left walls, up walls) and covers all 8 of
\* them: no box is dropped or emitted partially.
C2_StlComplete ==
    stl # Null =>
        LET boxes == boxesOf(exportedGeometry)
            N == 12 * (1 + Len(exportedGeometry.leftWalls) + Len(exportedGeometry.upWalls))
        IN /\ stl.triangleCount = N
           /\ stl.byteLength = 80 + 4 + 50 * N
           /\ Len(stl.triangles) = N
           /\ \A k \in 1..Len(boxes) :
                LET block == { stl.triangles[t][j] :
                                 t \in (12 * (k - 1) + 1)..(12 * k), j \in 1..3 }
                IN /\ \A v \in block : isCornerOf(v, boxes[k])
                   /\ Cardinality(block) = 8

C2_Witness ==
    /\ stl # Null
    /\ Len(exportedGeometry.leftWalls) = 4
    /\ Len(exportedGeometry.upWalls) = 4
    /\ stl.triangleCount = 108
    /\ stl.byteLength = 5484

\* C3: within one generated geometry a darker pixel never gets a shorter wall
\* than a lighter one, after rounding to the layer grid.
C3_HeightMonotone ==
    (geometry # Null /\ horizActive) =>
        \A i, j \in 1..Len(geometry.leftWalls) :
            pixelOfWall(horizImageData, i) < pixelOfWall(horizImageData, j) =>
                geometry.leftWalls[i].size[3] >= geometry.leftWalls[j].size[3]

C3_Witness ==
    /\ geometry # Null
    /\ pixelOfWall(horizImageData, 1) + 1 = pixelOfWall(horizImageData, 2)
    /\ geometry.leftWalls[1].size[3] > geometry.leftWalls[2].size[3]

validConfig(cfg) ==
    /\ cfg.numberOfColors >= 1
    /\ cfg.layerHeight > 0
    /\ cfg.maxHeight = cfg.numberOfColors * cfg.layerHeight

wallsOf(geom) ==
    { geom.leftWalls[i] : i \in 1..Len(geom.leftWalls) }
      \cup { geom.upWalls[i] : i \in 1..Len(geom.upWalls) }

\* C4: under a valid config the z-size of every wall is a whole number k of
\* layers with 1 <= k <= numberOfColors: the wall height is never negative,
\* never fractional and never above maxHeight.
C4_LayerAligned ==
    (geometry # Null /\ validConfig(computed)) =>
        \A w \in wallsOf(geometry) :
            /\ w.size[3] % computed.layerHeight = 0
            /\ w.size[3] \div computed.layerHeight >= 1
            /\ w.size[3] \div computed.layerHeight <= computed.numberOfColors
            /\ w.size[3] - computed.layerHeight >= 0
            /\ w.size[3] <= computed.maxHeight

C4_Witness ==
    /\ geometry # Null /\ validConfig(computed)
    /\ geometry.leftWalls[1].size[3] = computed.maxHeight
    /\ geometry.leftWalls[2].size[3] > computed.layerHeight
    /\ geometry.leftWalls[2].size[3] < computed.maxHeight

distinctHeights(walls) == { walls[i].size[3] : i \in 1..Len(walls) }
pixelsOf(img) == { pixelOfWall(img, i) : i \in 1..(img.width * img.height) }

blackIsTallest ==
    \A i \in 1..Len(geometry.leftWalls) :
        pixelOfWall(horizImageData, i) = 0 =>
            geometry.leftWalls[i].size[3] = computed.maxHeight

whiteIsOneLayer ==
    \A i \in 1..Len(geometry.leftWalls) :
        pixelOfWall(horizImageData, i) = MaxBrightness =>
            geometry.leftWalls[i].size[3] = computed.layerHeight

distinctHeightCount ==
    /\ (pixelsOf(horizImageData) = {0, MaxBrightness} /\ computed.numberOfColors >= 2)
          => Cardinality(distinctHeights(geometry.leftWalls)) = 2
    /\ Cardinality(pixelsOf(horizImageData)) = 1
          => Cardinality(distinctHeights(geometry.leftWalls)) = 1

\* C5 as stated: for every valid config black gives a wall of z-size maxHeight
\* and white a wall of exactly one layer; a 0/255 grid has 2 distinct heights
\* when numberOfColors >= 2 and a uniform grid has 1.
C5_BlackWhite ==
    (geometry # Null /\ horizActive /\ validConfig(computed)) =>
        blackIsTallest /\ whiteIsOneLayer /\ distinctHeightCount

\* C5 amended: the white wall is exactly one layer when numberOfColors <= 128,
\* i.e. (numberOfColors - 1) / 256 < 1/2; the rest holds for every valid config.
C5_BlackWhiteAmended ==
    (geometry # Null /\ horizActive /\ validConfig(computed)) =>
        /\ blackIsTallest
        /\ 2 * (computed.numberOfColors - 1) < BrightnessDivisor => whiteIsOneLayer
        /\ distinctHeightCount

C5_Witness ==
    /\ geometry # Null /\ validConfig(computed)
    /\ computed.numberOfColors = 128
    /\ pixelsOf(horizImageData) = {0, MaxBrightness}
    /\ distinctHeights(geometry.leftWalls) = {computed.layerHeight, computed.maxHeight}

\* C6: with both axes active the two grids are cropped to the smaller row
\* count endY: each axis has width * endY walls and the wall of pixel (x, y)
\* has posY = border + (endY - y) * cellSize on both axes.
C6_CroppedToSmaller ==
    (geometry # Null /\ horizActive /\ vertActive) =>
        LET endY == Min(horizImageData.height, vertImageData.height)
        IN /\ Len(geometry.leftWalls) = horizImageData.width * endY
           /\ Len(geometry.upWalls) = vertImageData.width * endY
           /\ \A i \in 1..Len(geometry.leftWalls) :
                geometry.leftWalls[i].position[2] =
                    computed.border
                      + (endY - (i - 1) \div horizImageData.width) * computed.cellSize
           /\ \A i \in 1..Len(geometry.upWalls) :
                geometry.upWalls[i].position[2] =
                    computed.border
                      + (endY - (i - 1) \div vertImageData.width) * computed.cellSize
                      + plusWallOffset(computed)

\* C7: a call with both axes disabled never returns a geometry; in particular
\* never a base-only result with empty leftWalls and upWalls.
C7_NoBaseOnlyResult ==
    geometry # Null => (horizActive \/ vertActive)

invalidConfig(c) ==
    \/ c.wallWidth >= c.cellSize
    \/ c.layerHeight <= 0
    \/ numberOfColorsOf(c) < 1

C9_RejectsInvalid ==
    /\ invalidConfig(config) => computed = Null
    /\ computed # Null => (computed.numberOfColors >= 1 /\ computed.maxHeight > 0)

cellsOf(img) == { img.data[y][x] : y \in 1..img.height, x \in 1..img.width }

\* the integer levels round(k * 255 / (n - 1)), k = 0..n-1
roundedLevels(n) == { Round(k * MaxBrightness, n - 1) : k \in 0..(n - 1) }

integerLevelMembership ==
    \A c \in cellsOf(dithered) :
        /\ c % dithered.scale = 0
        /\ c \div dithered.scale \in 0..MaxBrightness
        /\ c \div dithered.scale \in roundedLevels(computed.numberOfColors)

\* C10 as stated: every dithered value is an integer in [0,255] of the set
\* {round(k*255/(n-1)) : k = 0..n-1}.
C10_LevelMembership ==
    dithered # Null => integerLevelMembership

\* C10 amended: every dithered value is exactly k*255/(n-1) for an integer k
\* in 0..n-1, hence in [0,255]; it is an integer of the stated set when n-1
\* divides 255.
C10_LevelMembershipAmended ==
    dithered # Null =>
        LET n == computed.numberOfColors
        IN /\ \A c \in cellsOf(dithered) :
                \E k \in 0..(n - 1) :
                    c * (n - 1) = k * MaxBrightness * dithered.scale
           /\ MaxBrightness % (n - 1) = 0 => integerLevelMembership

C10_Witness ==
    /\ dithered # Null
    /\ computed.numberOfColors = 3
    /\ dithered.width = 2 /\ dithered.height = 2
    /\ \E c \in cellsOf(dithered) : 2 * c = MaxBrightness * dithered.scale
    /\ \E c \in cellsOf(dithered) : c = MaxBrightness * dithered.scale

\* C11: ditherImage never mutates its input: across the call every cell of
\* imageData.data and its width and height keep their values, and no row of
\* the returned grid is a row array of the input, although the error diffusion
\* writes into cells of the working grid that were not visited yet.
C11_InputUnchanged ==
    [][ DitherImage =>
          /\ resized' = resized
          /\ \A y \in 1..dithered'.height : dithered'.rowOf[y] = 0 ]_vars

\* a 2x2 run in which the error of the first pixel was written into the three
\* neighbours before they were visited, and the input still holds 64 everywhere
C11_Witness ==
    /\ dithered # Null
    /\ computed.numberOfColors = 2
    /\ resized = Grid(<< <<64, 64>>, <<64, 64>> >>)
    /\ dithered.data[1][1] = 0
    /\ dithered.data[2][2] = MaxBrightness * dithered.scale
    /\ \A y \in 1..2 : dithered.rowOf[y] = 0

\* C12: the quantizer fails with InvalidParameter when numberOfColors < 2 or
\* targetWidth <= 0: it ends with no other exception and returns no grid; in
\* particular ditherImage with numberOfColors = 1 returns no grid of
\* non-numeric values.
C12_QuantizerRejects ==
    (computed.numberOfColors < 2 \/ config.widthInPixels <= 0) =>
        /\ dithered = Null
        /\ thrown \in {"none", "InvalidParameter"}

rowsMatch(grid) ==
    /\ Len(grid.data) = grid.height
    /\ \A y \in 1..Len(grid.data) : Len(grid.data[y]) = grid.width

latestResult(file) ==
    IF file = Null THEN Null
    ELSE processImage(file, computed.widthInPixels, computed.numberOfColors)

\* both absent, or grids of the same size with the same brightness values
sameGrid(a, b) ==
    IF a = Null \/ b = Null THEN a = b
    ELSE /\ a.width = b.width /\ a.height = b.height
         /\ \A y \in 1..a.height : \A x \in 1..a.width :
               a.data[y][x] * b.scale = b.data[y][x] * a.scale

\* C13: last-write-wins by request order: once no processImages call is in
\* flight, horizImageData and vertImageData hold the results of the call
\* started last (the one for the current files, widthInPixels and
\* numberOfColors, when it succeeded); a stale result never overwrites them.
C13_LastWriteWins ==
    (/\ Len(inflight) = 0
     /\ ~(horizFile = Null /\ vertFile = Null)
     /\ ~isRejected(latestResult(horizFile))
     /\ ~isRejected(latestResult(vertFile))) =>
        /\ sameGrid(horizImageData, latestResult(horizFile))
        /\ sameGrid(vertImageData, latestResult(vertFile))

\* C18: in ImageUpload, selecting a file in one slot leaves the other slot
\* as it was: handleHorizChange(f) calls onImagesSelected(f, vertFile) and
\* handleVertChange(f) calls onImagesSelected(horizFile, f), in every state.
C18_OtherSlotKept ==
    [][ /\ (\E file \in Files \cup {Null} : handleHorizChange(file)) =>
              vertFile' = vertFile
        /\ (\E file \in Files \cup {Null} : handleVertChange(file)) =>
              horizFile' = horizFile ]_vars

\* both slots filled by two selections, the earlier one kept by the later
C18_Witness ==
    /\ horizFile = [ name |-> "horizontal.jpg" ]
    /\ vertFile = [ name |-> "vertical.png" ]
    /\ Len(inflight) = MaxInFlight

RECURSIVE trimZeros(_)
\* a digit sequence without its trailing zeros
trimZeros(digits) ==
    IF Len(digits) > 0 /\ digits[Len(digits)] = 0
    THEN trimZeros(SubSeq(digits, 1, Len(digits) - 1))
    ELSE digits

\* n >= 0 printed with at most 2 decimals and trailing zeros trimmed
trimmedDecimal(n) ==
    LET hundredths == (2 * n + 10) \div 20
    IN [ whole |-> hundredths \div 100,
         decimals |-> trimZeros(<< (hundredths \div 10) % 10, hundredths % 10 >>) ]

\* C14: outputFilename is {widthInPixels}px_{cellSize}cell_{wallWidth}wall_
\* {bottomThk}bottom_{maxHeight}maxHeight.stl with every numeric field printed
\* with at most 2 decimals and trailing zeros trimmed (2.1 as 2.1, 1 as 1,
\* 0.22 as 0.22).
C14_Filename ==
    computed.outputFilename =
        << config.widthInPixels, "px_", trimmedDecimal(config.cellSize), "cell_",
           trimmedDecimal(config.wallWidth), "wall_",
           trimmedDecimal(config.bottomThk), "bottom_",
           trimmedDecimal(computed.maxHeight), "maxHeight.stl" >>

C19_SceneBounds ==
    geometry # Null =>
        LET boxes == boxesOf(geometry)
        IN \A a \in 1..3 :
             /\ \A k \in 1..Len(boxes) :
                   /\ 2 * bounds.min[a] <= 2 * boxes[k].position[a] - boxes[k].size[a]
                   /\ 2 * bounds.max[a] >= 2 * boxes[k].position[a] + boxes[k].size[a]
             /\ \E k \in 1..Len(boxes) :
                   2 * bounds.min[a] = 2 * boxes[k].position[a] - boxes[k].size[a]
             /\ \E k \in 1..Len(boxes) :
                   2 * bounds.max[a] = 2 * boxes[k].position[a] + boxes[k].size[a]
             /\ 2 * bounds.center[a] = bounds.min[a] + bounds.max[a]
             /\ bounds.size[a] = bounds.max[a] - bounds.min[a]

\* only up walls above the base: the top of the bounds is the top of an up
\* wall and the bottom corner is the base's
C19_Witness ==
    /\ geometry # Null
    /\ Len(geometry.leftWalls) = 0 /\ Len(geometry.upWalls) = 4
    /\ bounds.min = <<0, 0, 0>>
    /\ bounds.max[3] = computed.bottomThk + computed.maxHeight
    /\ bounds.size[1] = geometry.base.size[1]

\* 0.5 * (cellSize - wallWidth) in plus-wall mode, doubled
plusShift2 == IF computed.shouldDoPlusWalls THEN computed.cellSize - computed.wallWidth ELSE 0

\* the wall made from pixel (x, y) of img, with the offset on axis `thin`
\* (1 = X for a left wall, 2 = Y for an up wall), is placed as claimed
placedAsClaimed(wall, img, x, y, thin) ==
    LET endY == img.height
        h == wall.size[3] - computed.layerHeight
    IN /\ h = wallHeight(pixelAt(img, x, y), computed)
       /\ 2 * wall.position[1] =
            2 * (computed.border + (x + 1) * computed.cellSize)
              + (IF thin = 1 THEN plusShift2 ELSE 0)
       /\ 2 * wall.position[2] =
            2 * (computed.border + (endY - y) * computed.cellSize)
              + (IF thin = 2 THEN plusShift2 ELSE 0)
       /\ 2 * wall.position[3] = 2 * computed.bottomThk + h + computed.layerHeight
       /\ wall.size[thin] = computed.wallWidth + 10
       /\ wall.size[3 - thin] = computed.cellSize + 10

\* C20: the left wall of pixel (x, y) of a grid with endY rows has posX =
\* border + (x+1)*cellSize (+ 0.5*(cellSize - wallWidth) only in plus-wall
\* mode), posY = border + (endY - y)*cellSize, posZ = bottomThk + wallHeight/2
\* + layerHeight/2 and size (wallWidth + 0.01, cellSize + 0.01, wallHeight +
\* layerHeight); the up wall is its mirror with the X and Y sizes swapped and
\* the offset added to posY; posY strictly decreases as y increases.
C20_Placement ==
    geometry # Null =>
        /\ \A i \in 1..Len(geometry.leftWalls) :
              placedAsClaimed(geometry.leftWalls[i], horizImageData,
                  (i - 1) % horizImageData.width, (i - 1) \div horizImageData.width, 1)
        /\ \A i \in 1..Len(geometry.upWalls) :
              placedAsClaimed(geometry.upWalls[i], vertImageData,
                  (i - 1) % vertImageData.width, (i - 1) \div vertImageData.width, 2)
        /\ \A i, j \in 1..Len(geometry.leftWalls) :
              (i - 1) \div horizImageData.width < (j - 1) \div horizImageData.width =>
                  geometry.leftWalls[i].position[2] > geometry.leftWalls[j].position[2]
        /\ \A i, j \in 1..Len(geometry.upWalls) :
              (i - 1) \div vertImageData.width < (j - 1) \div vertImageData.width =>
                  geometry.upWalls[i].position[2] > geometry.upWalls[j].position[2]

\* plus-wall mode on 2 x 2 grids of both axes: the first left wall is shifted
\* in X, the first up wall in Y, and the top row is the farthest in Y
C20_Witness ==
    /\ geometry # Null /\ computed.shouldDoPlusWalls
    /\ Len(geometry.leftWalls) = 4 /\ Len(geometry.upWalls) = 4
    /\ geometry.leftWalls[1].position[1] > geometry.upWalls[1].position[1]
    /\ geometry.upWalls[1].position[2] > geometry.leftWalls[1].position[2]
    /\ geometry.leftWalls[1].position[2] > geometry.leftWalls[3].position[2]

\* the larger of the two grids' widths / heights, a missing grid counting 0
largerWidth ==
    LET hw == IF horizImageData = Null THEN 0 ELSE horizImageData.width
        vw == IF vertImageData = Null THEN 0 ELSE vertImageData.width
    IN IF hw >= vw THEN hw ELSE vw
largerHeight ==
    LET hh == IF horizImageData = Null THEN 0 ELSE horizImageData.height
        vh == IF vertImageData = Null THEN 0 ELSE vertImageData.height
    IN IF hh >= vh THEN hh ELSE vh

\* C21: the base slab has size (border*2 + cellSize*(imageWidth+2),
\* border*2 + cellSize*(imageHeight+2), bottomThk) and center (sizeX/2,
\* sizeY/2, bottomThk/2), imageWidth and imageHeight being the maxima over
\* the two grids (a missing grid counts as 0), so its lower corner is the
\* origin and it spans z in [0, bottomThk].
C21_BaseSlab ==
    geometry # Null =>
        LET base == geometry.base
        IN /\ base.size[1] = computed.border * 2 + computed.cellSize * (largerWidth + 2)
           /\ base.size[2] = computed.border * 2 + computed.cellSize * (largerHeight + 2)
           /\ base.size[3] = computed.bottomThk
           /\ \A a \in 1..3 : 2 * base.position[a] = base.size[a]
           /\ \A a \in 1..3 : 2 * base.position[a] - base.size[a] = 0
           /\ 2 * base.position[3] + base.size[3] = 2 * computed.bottomThk

\* a base whose width comes from the vertical grid and whose height comes
\* from the horizontal one
C21_Witness ==
    /\ geometry # Null
    /\ horizImageData # Null /\ vertImageData # Null
    /\ horizImageData.width < vertImageData.width
    /\ horizImageData.height > vertImageData.height
    /\ geometry.base.size[1] = computed.border * 2 + computed.cellSize * 4
    /\ geometry.base.size[2] = computed.border * 2 + computed.cellSize * 4

\* the sixteenths of the error that the cell at offset (dx, dy) from the
\* visited pixel is to receive
kernelWeight(dx, dy) ==
    CASE dx = 1 /\ dy = 0 -> 7
      [] dx = -1 /\ dy = 1 -> 3
      [] dx = 0 /\ dy = 1 -> 5
      [] dx = 1 /\ dy = 1 -> 1
      [] OTHER -> 0

\* what the step from grid g to grid k added to the cells 1..n (row-major) other
\* than cell `visited`
RECURSIVE addedTotal(_, _, _, _, _)
addedTotal(g, k, width, visited, n) ==
    IF n = 0 THEN 0
    ELSE addedTotal(g, k, width, visited, n - 1)
           + (IF n = visited THEN 0
              ELSE k[((n - 1) \div width) + 1][((n - 1) % width) + 1]
                     - g[((n - 1) \div width) + 1][((n - 1) % width) + 1])

\* the step that visits pixel number pos (row-major) moved the pixel's error
\* as claimed
diffusedAsClaimed ==
    LET width == resized.width
        height == resized.height
        x == pos % width
        y == pos \div width
        error == working[y + 1][x + 1] - working'[y + 1][x + 1]
        added(cx, cy) == working'[cy + 1][cx + 1] - working[cy + 1][cx + 1]
        interior == x - 1 >= 0 /\ x + 1 < width /\ y + 1 < height
    IN /\ \A cy \in 0..(height - 1) : \A cx \in 0..(width - 1) :
             (cx # x \/ cy # y) =>
                 /\ (kernelWeight(cx - x, cy - y) * error) % 16 = 0
                 /\ added(cx, cy) = (kernelWeight(cx - x, cy - y) * error) \div 16
       /\ \A cy \in 0..(height - 1) : \A cx \in 0..(width - 1) :
             cy * width + cx < pos => added(cx, cy) = 0
       /\ interior =>
             addedTotal(working, working', width, pos + 1, width * height) = error

\* C22: ditherImage visits pixels in row-major order and adds error*7/16 to
\* the right neighbour, 3/16 to below-left, 5/16 to below and 1/16 to
\* below-right, only to neighbours inside the grid: for a pixel with all four
\* neighbours the amounts added sum exactly to its error, out-of-range shares
\* are dropped with no wraparound, and a value already quantized is never
\* modified again.
C22_Diffusion ==
    [][(working # Null /\ working' # Null /\ pos' # pos) =>
          (pos' = pos + 1 /\ diffusedAsClaimed)]_vars

\* pixel (1, 0) of a 3 x 2 grid, which has all four neighbours, has been
\* visited and its error has reached the three cells below and the one right
C22_Witness ==
    /\ working # Null /\ pos = 2
    /\ resized.width = 3 /\ resized.height = 2
    /\ \E k \in 0..(computed.numberOfColors - 1) :
          working[1][2] = k * scaledStep(3, 2, computed.numberOfColors)
    /\ working[1][2] # resized.data[1][2] * ditherScale(3, 2, computed.numberOfColors)
    /\ \A x \in 1..3 :
          working[2][x] # resized.data[2][x] * ditherScale(3, 2, computed.numberOfColors)

\* sum of |original - dithered| over the first n cells (row-major), in units
\* of 1 / result.scale
RECURSIVE absErrorSum(_, _, _)
absErrorSum(original, result, n) ==
    IF n = 0 THEN 0
    ELSE LET y == ((n - 1) \div original.width) + 1
             x == ((n - 1) % original.width) + 1
             d == original.data[y][x] * result.scale - result.data[y][x]
         IN absErrorSum(original, result, n - 1) + (IF d < 0 THEN -d ELSE d)

\* C23: the sum of |original - dithered| over all pixels divided by the pixel
\* count is bounded by a constant that depends only on numberOfColors, here
\* step = 255 / (numberOfColors - 1), for every width and height.
C23_MeanErrorBounded ==
    (dithered # Null /\ resized # Null /\ computed.numberOfColors >= 2) =>
        absErrorSum(resized, dithered, dithered.width * dithered.height)
            * (computed.numberOfColors - 1)
          <= dithered.width * dithered.height * 255 * dithered.scale

\* a grid of the largest size whose quantization moved some pixel, next to a
\* boundary where shares were dropped
C23_Witness ==
    /\ dithered # Null /\ resized # Null
    /\ dithered.width * dithered.height = MaxDitherPixels
    /\ computed.numberOfColors = 3
    /\ absErrorSum(resized, dithered, dithered.width * dithered.height) > 0

\* C24: resizeAndGrayscale computes each cell as gray = round(0.299*R +
\* 0.587*G + 0.114*B) of the pixel at row y, column x (row-major): an integer
\* in [0,255] for every R, G, B in [0,255]; a neutral pixel (v, v, v) maps to
\* v, white to 255, black to 0, pure red to 76 and pure green to 150.
C24_Grayscale ==
    resized # Null =>
        \A y \in 1..resized.height : \A x \in 1..resized.width :
            LET rgb == canvas[(y - 1) * resized.width + x]
                gray == resized.data[y][x]
                sum == 299 * rgb[1] + 587 * rgb[2] + 114 * rgb[3]
            IN /\ gray \in 0..255
               /\ 1000 * gray - sum > -500
               /\ 1000 * gray - sum <= 500
               /\ (rgb[1] = rgb[2] /\ rgb[2] = rgb[3]) => gray = rgb[1]
               /\ rgb = <<255, 255, 255>> => gray = 255
               /\ rgb = <<0, 0, 0>> => gray = 0
               /\ rgb = <<255, 0, 0>> => gray = 76
               /\ rgb = <<0, 255, 0>> => gray = 150

\* the canvas of the repository's test: white, black, red, green in row-major
\* order
C24_Witness ==
    /\ resized # Null
    /\ canvas = << <<255, 255, 255>>, <<0, 0, 0>>, <<255, 0, 0>>, <<0, 255, 0>> >>
    /\ resized.data = << <<255, 0>>, <<76, 150>> >>

C26_IndexRebase ==
    merged # Null =>
        LET boxes == boxesOf(exportedGeometry)
            before(k) == VerticesPerBox * (k - 1)
        IN /\ Len(merged.index) = IndicesPerBox * Len(boxes)
           /\ Len(merged.position) = VerticesPerBox * Len(boxes)
           /\ \A k \in 1..Len(boxes) : \A i \in 1..IndicesPerBox :
                LET merging == merged.index[IndicesPerBox * (k - 1) + i]
                IN /\ merging = boxIndex(i - 1) + before(k)
                   /\ merging >= before(k)
                   /\ merging < before(k) + VerticesPerBox
                   /\ merging < Len(merged.position)
           /\ Len(boxes) >= 2 =>
                /\ merged.positionOffset = FloatsPerVertex * Len(merged.position)
                /\ merged.normalOffset = FloatsPerVertex * Len(merged.normal)
                /\ merged.indexOffset = Len(merged.index)
                /\ Len(merged.normal) = Len(merged.position)
           /\ \A k \in 1..Len(boxes) : \A v \in 1..VerticesPerBox :
                LET local == boxVertex(boxes[k].size, (v - 1) \div 4, (v - 1) % 4)
                    world == merged.position[before(k) + v]
                IN \A a \in 1..3 : world[a] = local[a] + boxes[k].position[a]

\* a base, four left walls and four up walls merged: the last box's indices
\* lie in 192..215 of 216 vertices
C26_Witness ==
    /\ merged # Null
    /\ Len(boxesOf(exportedGeometry)) = 9
    /\ Len(merged.index) = 324
    /\ merged.index[324] \in 192..215
    /\ merged.index[37] = boxIndex(0) + 24
    /\ merged.indexOffset = 324 /\ merged.positionOffset = 648

\* C27: with values in [0, 255] and numberOfColors = n >= 2 the quantizer
\* needs no clamp: the working value of a pixel just before it is quantized
\* lies in [-step/2, 255 + step/2) with step = 255 / (n - 1), so every output
\* value is k * step for an integer k in 0..n-1, never below 0 or above 255,
\* and every output pixel differs from the original pixel by at most step.
C27_NoClampNeeded ==
    (working # Null /\ resized # Null /\ computed.numberOfColors >= 2) =>
        LET n == computed.numberOfColors
            width == resized.width
            height == resized.height
            scale == ditherScale(width, height, n)
            step == scaledStep(width, height, n)
            cell(g, p) == g[(p \div width) + 1][(p % width) + 1]
        IN /\ \A p \in 0..(width * height - 1) :
                 resized.data[(p \div width) + 1][(p % width) + 1] \in 0..255
           /\ pos < width * height =>
                 /\ 2 * cell(working, pos) >= -step
                 /\ 2 * cell(working, pos) < 2 * 255 * scale + step
           /\ \A p \in 0..(pos - 1) :
                 LET out == cell(working, p)
                     original == cell(resized.data, p) * scale
                 IN /\ \E k \in 0..(n - 1) : out = k * step
                    /\ out >= 0 /\ out <= 255 * scale
                    /\ out - original <= step
                    /\ original - out <= step
           /\ dithered # Null => (pos = width * height /\ dithered.data = working)

\* a pixel whose working value had been pushed above 255 by the error of
\* earlier pixels has been quantized to 255
C27_Witness ==
    /\ working # Null /\ pos >= 2
    /\ \E p \in 1..(pos - 1) :
          LET width == resized.width
              scale == ditherScale(width, resized.height, computed.numberOfColors)
              step == scaledStep(width, resized.height, computed.numberOfColors)
              x == (p % width) + 1
              y == (p \div width) + 1
              before == ditherLoop([ r \in 1..Len(resized.data) |->
                                      [ c \in 1..Len(resized.data[r]) |->
                                          resized.data[r][c] * scale ] ],
                                   width, resized.height, step, p)
          IN /\ before[y][x] > 255 * scale
             /\ working[y][x] = 255 * scale

\* C28: isProcessing is true whenever at least one image-processing request
\* started by the effect is still in flight, for every interleaving of
\* overlapping requests; it is false only when no request remains pending.
C28_ProcessingWhilePending ==
    inflight # << >> => isProcessing

\* wall number i of a list made from grid img stands on the base and inside
\* its footprint
restsOnBase(wall, img, i, base, cfg) ==
    /\ 2 * wall.position[3] - wall.size[3] = 2 * cfg.bottomThk
    /\ 2 * wall.position[3] + wall.size[3] =
          2 * (cfg.bottomThk + wallHeight(pixelOfWall(img, i), cfg) + cfg.layerHeight)
    /\ \A a \in 1..2 :
          /\ 2 * wall.position[a] - wall.size[a] >= 0
          /\ 2 * wall.position[a] + wall.size[a] <= 2 * base.size[a]

allWallsRestOnBase ==
    /\ \A i \in 1..Len(geometry.leftWalls) :
          restsOnBase(geometry.leftWalls[i], horizImageData, i, geometry.base, computed)
    /\ \A i \in 1..Len(geometry.upWalls) :
          restsOnBase(geometry.upWalls[i], vertImageData, i, geometry.base, computed)
    /\ bounds.min = << 0, 0, 0 >>

viewerHoldsOneGroup ==
    /\ Cardinality(scene) <= 1
    /\ scene # {} => scene = { geometryGroupRef }
    /\ geometryGroupRef # Null => geometryGroupRef \in scene
    /\ \A id \in 1..built :
          \/ geometryGroupRef # Null /\ geometryGroupRef.id = id
          \/ \E d \in disposed : d.id = id /\ d.meshes > 0
    /\ thrown # "none" => (scene = {} /\ geometryGroupRef = Null)

\* C30: after any sequence of image-data or config updates the scene holds at
\* most one geometry group and it is the one referenced by geometryGroupRef:
\* before a new group is built the previous one is removed from the scene,
\* the geometry of each of its meshes is disposed and the ref is cleared; if
\* generation throws, the scene holds no group and the ref is null; and
\* onGeometryReady is called only with the geometry of the group just added.
C30_SingleGroup ==
    [][/\ viewerHoldsOneGroup'
       /\ (geometryGroupRef # Null /\ geometryGroupRef' # geometryGroupRef) =>
             /\ geometryGroupRef \notin scene'
             /\ [ id |-> geometryGroupRef.id,
                  meshes |-> 1 + Len(geometryGroupRef.geometry.leftWalls)
                               + Len(geometryGroupRef.geometry.upWalls) ] \in disposed'
       /\ built' # built =>
             /\ built' = built + 1
             /\ geometryGroupRef'.id = built'
             /\ geometry' = geometryGroupRef'.geometry
       /\ geometry' # geometry =>
             /\ built' = built + 1
             /\ geometryGroupRef' \in scene'
             /\ geometry' = geometryGroupRef'.geometry
             /\ geometry' = generateShadowCasterGeometry(horizImageData',
                                 vertImageData', computed')
      ]_vars

\* the second group after an update: the first one, of three meshes, has
\* been disposed and the scene holds the second, whose geometry was reported
C30_Witness ==
    /\ built = 2
    /\ geometryGroupRef # Null /\ geometryGroupRef.id = 2
    /\ scene = { geometryGroupRef }
    /\ disposed = { [ id |-> 1, meshes |-> 3 ] }
    /\ geometry = geometryGroupRef.geometry
    /\ thrown = "none"

====
